---- MODULE Spec2Model ----
(***************************************************************************)
(* The polygon-set antenna checker of src/ant/src/AntennaChecker.cc:       *)
(* buildLayerMaps / saveGates (connectivity), calculateAreas /             *)
(* calculatePAR / calculateCAR (ratio engine), checkPAR .. checkCSR and    *)
(* checkInfo (checker), driven by checkNet and getAntennaViolations2.      *)
(*                                                                         *)
(* Doubles are modelled as exact rationals <<numerator, denominator>> in   *)
(* lowest terms with a positive denominator; areas are integers (um^2).    *)
(* Layers are the positions 1..Len(tech) of the layer stack, 0 is the null *)
(* layer pointer.  Geometry is abstracted to the "intersects" relation     *)
(* that findNodesWithIntersection computes from the polygons.              *)
(***************************************************************************)
EXTENDS Integers, Sequences, FiniteSets, TLC

VARIABLES
  tech,                  \* odb tech: the layer stack with the antenna rules
  nets,                  \* odb block: the nets (wire islands, vias, iterms)
  layer_info_,           \* RuleStore: layer -> AntennaModel
  node_by_layer_map_,    \* layer -> sequence of GraphNode
  node_count_,
  dsu_parent_,
  dsu_size_,
  info_,                 \* gate name -> (layer -> InfoType)
  antenna_violations_,   \* sequence of Violation
  ratio_margin_,
  net_violation_count,   \* out-parameter of checkNet
  pin_violation_count,   \* out-parameter of checkNet
  pc,                    \* the next step of the running call, or "idle"
  cur,                   \* the net the running call checks (0: none)
  rec,                   \* SpecCheck: the InfoType record under check
  verdict,               \* SpecCheck: ratio_margin |-> the results of the
                         \* four checks of rec under that margin
  diode_mterm,           \* the diode_mterm argument checkInfo read last
  log,                   \* what the running call gave the logger and the
                         \* report file, line by line
  net_violation_count_,  \* the count the last checkAntennas stored
  grt_routes,            \* global_route_source_->haveRoutes()
  net_wires_made,        \* makeNetWires ran and destroyNetWires did not
  run                    \* checkAntennas: verbose, report and the nets the
                         \* running call has still to check

vars == <<tech, nets, layer_info_, node_by_layer_map_, node_count_, dsu_parent_,
          dsu_size_, info_, antenna_violations_, ratio_margin_,
          net_violation_count, pin_violation_count, pc, cur, rec, verdict,
          diode_mterm, log, net_violation_count_, grt_routes, net_wires_made,
          run>>

\* what only checkAntennas reads or writes
runVars == <<net_violation_count_, grt_routes, net_wires_made, run>>

----------------------------------------------------------------------------
(* Bounds of the inputs *)

MaxWires == 2        \* islands per metal layer of a net
MaxVias == 2         \* islands per via layer of a net
MaxGateArea == 2     \* gate area of an iterm (um^2)
MaxDiffArea == 2     \* diffusion area of an iterm or diode (um^2)

----------------------------------------------------------------------------
(* Exact rational arithmetic standing for double arithmetic *)

Abs(x) == IF x < 0 THEN -x ELSE x

RECURSIVE GCD(_, _)
GCD(a, b) == IF b = 0 THEN a ELSE GCD(b, a % b)

Rat(n, d) ==
  LET g == GCD(Abs(n), Abs(d))
      s == IF d < 0 THEN -1 ELSE 1
  IN  <<(s * n) \div g, (s * d) \div g>>

RInt(n) == <<n, 1>>
RZero == <<0, 1>>
ROne == <<1, 1>>
RAdd(a, b) == Rat(a[1] * b[2] + b[1] * a[2], a[2] * b[2])
RSub(a, b) == Rat(a[1] * b[2] - b[1] * a[2], a[2] * b[2])
RMul(a, b) == Rat(a[1] * b[1], a[2] * b[2])
RDiv(a, b) == Rat(a[1] * b[2], a[2] * b[1])
RGt(a, b) == a[1] * b[2] > b[1] * a[2]
RGe(a, b) == a[1] * b[2] >= b[1] * a[2]
RLt(a, b) == RGt(b, a)

\* 0.0 / 0.0, the first slope getPwlFactor computes; never consumed
NaN == <<0, 0>>

----------------------------------------------------------------------------
(* The layer stack *)

Layers == 1 .. Len(tech)
getRoutingLevel(l) == tech[l].routingLevel
getUpperLayer(l) == IF l < Len(tech) THEN l + 1 ELSE 0
getLowerLayer(l) == IF l > 1 THEN l - 1 ELSE 0
hasDefaultAntennaRule(l) == tech[l].hasRule
getDefaultAntennaRule(l) == tech[l].rule

----------------------------------------------------------------------------
(* getPwlFactor: pwl_info is a sequence of <<index, ratio>>, index an      *)
(* integer and ratio a rational; ref_value is an integer.                  *)

\* the loop without its test of the bracket: the last segment decides
RECURSIVE PwlLoop_noBracket(_, _, _, _, _, _)
PwlLoop_noBracket(pwl_info, ref_value, i, index1, ratio1, slope) ==
  IF i > Len(pwl_info)
    THEN RAdd(ratio1, RMul(RInt(ref_value - index1), slope))
    ELSE PwlLoop_noBracket(pwl_info, ref_value, i + 1, pwl_info[i][1],
                           pwl_info[i][2],
                           IF pwl_info[i][1] = index1 THEN NaN
                           ELSE RDiv(RSub(pwl_info[i][2], ratio1),
                                     RInt(pwl_info[i][1] - index1)))

\* the loop that ends with the last ratio instead of extrapolating
RECURSIVE PwlLoop_clamped(_, _, _, _, _, _)
PwlLoop_clamped(pwl_info, ref_value, i, index1, ratio1, slope) ==
  IF i > Len(pwl_info)
    THEN ratio1
    ELSE IF ref_value >= index1 /\ ref_value < pwl_info[i][1]
      THEN RAdd(ratio1,
                RMul(RInt(ref_value - index1),
                     RDiv(RSub(pwl_info[i][2], ratio1),
                          RInt(pwl_info[i][1] - index1))))
      ELSE PwlLoop_clamped(pwl_info, ref_value, i + 1, pwl_info[i][1],
                           pwl_info[i][2], slope)

RECURSIVE PwlLoop(_, _, _, _, _, _)
PwlLoop(pwl_info, ref_value, i, index1, ratio1, slope) ==
  IF i > Len(pwl_info)
    THEN RAdd(ratio1, RMul(RInt(ref_value - index1), slope))
    ELSE LET index2 == pwl_info[i][1]
             ratio2 == pwl_info[i][2]
             slope2 == IF index2 = index1
                         THEN NaN
                         ELSE RDiv(RSub(ratio2, ratio1), RInt(index2 - index1))
         IN  IF ref_value >= index1 /\ ref_value < index2
               THEN RAdd(ratio1, RMul(RInt(ref_value - index1), slope2))
               ELSE PwlLoop(pwl_info, ref_value, i + 1, index2, ratio2, slope2)

getPwlFactor(pwl_info, ref_value, default_value) ==
  IF Len(pwl_info) # 0
    THEN IF Len(pwl_info) = 1
           THEN pwl_info[1][2]
           ELSE PwlLoop(pwl_info, ref_value, 1, pwl_info[1][1], pwl_info[1][2], ROne)
    ELSE default_value

----------------------------------------------------------------------------
(* InfoType *)

InfoType0 ==
  [PAR |-> RZero, PSR |-> RZero, diff_PAR |-> RZero, diff_PSR |-> RZero,
   area |-> 0, side_area |-> 0, iterm_gate_area |-> 0, iterm_diff_area |-> 0,
   CAR |-> RZero, CSR |-> RZero, diff_CAR |-> RZero, diff_CSR |-> RZero,
   iterms |-> {}]

\* InfoType::operator+= : ratios, area and side area add up; the gate and
\* diffusion areas, the cumulative ratios and the iterms stay those of a
InfoAdd(a, b) ==
  [a EXCEPT !.PAR = RAdd(a.PAR, b.PAR),
            !.PSR = RAdd(a.PSR, b.PSR),
            !.diff_PAR = RAdd(a.diff_PAR, b.diff_PAR),
            !.diff_PSR = RAdd(a.diff_PSR, b.diff_PSR),
            !.area = a.area + b.area,
            !.side_area = a.side_area + b.side_area]

----------------------------------------------------------------------------
(* RuleStore *)

\* a value-initialised AntennaModel: what layer_info_[layer] inserts for a
\* layer that has no entry
AntennaModel0 ==
  [metal_factor |-> 0, diff_metal_factor |-> 0, cut_factor |-> 0,
   diff_cut_factor |-> 0, side_metal_factor |-> 0,
   diff_side_metal_factor |-> 0, minus_diff_factor |-> 0,
   plus_diff_factor |-> 0, diff_metal_reduce_factor |-> 0]

AntennaModelOf(l) ==
  LET r == getDefaultAntennaRule(l)
      has == hasDefaultAntennaRule(l)
  IN  [metal_factor |->
         IF has /\ ~r.areaFactorDiffUseOnly THEN r.areaFactor ELSE 1,
       diff_metal_factor |-> IF has THEN r.areaFactor ELSE 1,
       cut_factor |->
         IF has /\ ~r.areaFactorDiffUseOnly THEN r.areaFactor ELSE 1,
       diff_cut_factor |-> IF has THEN r.areaFactor ELSE 1,
       side_metal_factor |->
         IF has /\ ~r.sideAreaFactorDiffUseOnly THEN r.sideAreaFactor ELSE 1,
       diff_side_metal_factor |-> IF has THEN r.sideAreaFactor ELSE 1,
       minus_diff_factor |-> IF has THEN r.areaMinusDiffFactor ELSE 0,
       plus_diff_factor |-> IF has THEN r.gatePlusDiffFactor ELSE 0,
       diff_metal_reduce_factor |-> 1]

\* layer_info_[tech_layer] of an unordered_map: reads the entry, inserting a
\* value-initialised one when there is none
LayerInfoAt(li, l) == IF l \in DOMAIN li THEN li[l] ELSE AntennaModel0
LayerInfoTouch(li, ls) ==
  [l \in (DOMAIN li) \cup ls |-> LayerInfoAt(li, l)]

----------------------------------------------------------------------------
(* Ratio engine: PAR / PSR of one record *)

DiffRatio_swapped(factor, a, reduce, minus, plus, info) ==
  RDiv(RSub(RInt(minus * info.iterm_diff_area),
            RMul(RInt(factor * a), reduce)),
       RInt(info.iterm_gate_area + plus * info.iterm_diff_area))

DiffRatio(factor, a, reduce, minus, plus, info) ==
  RDiv(RSub(RMul(RInt(factor * a), reduce),
            RInt(minus * info.iterm_diff_area)),
       RInt(info.iterm_gate_area + plus * info.iterm_diff_area))

ReduceFactor(l, info) ==
  IF hasDefaultAntennaRule(l)
    THEN getPwlFactor(getDefaultAntennaRule(l).areaDiffReduce,
                      info.iterm_diff_area, ROne)
    ELSE ROne

calculateWirePar(li, l, info) ==
  LET am == LayerInfoAt(li, l)
      diff_metal_reduce_factor == ReduceFactor(l, info)
  IN  IF info.iterm_diff_area # 0
        THEN [info EXCEPT
                !.PAR = Rat(am.diff_metal_factor * info.area,
                            info.iterm_gate_area),
                !.PSR = Rat(am.diff_side_metal_factor * info.side_area,
                            info.iterm_gate_area),
                !.diff_PAR = DiffRatio(am.diff_metal_factor, info.area,
                                       diff_metal_reduce_factor,
                                       am.minus_diff_factor,
                                       am.plus_diff_factor, info),
                !.diff_PSR = DiffRatio(am.diff_side_metal_factor,
                                       info.side_area,
                                       diff_metal_reduce_factor,
                                       am.minus_diff_factor,
                                       am.plus_diff_factor, info)]
        ELSE [info EXCEPT
                !.PAR = Rat(am.metal_factor * info.area, info.iterm_gate_area),
                !.PSR = Rat(am.side_metal_factor * info.side_area,
                            info.iterm_gate_area),
                !.diff_PAR = RDiv(RMul(RInt(am.metal_factor * info.area),
                                       diff_metal_reduce_factor),
                                  RInt(info.iterm_gate_area)),
                !.diff_PSR = RDiv(RMul(RInt(am.side_metal_factor
                                            * info.side_area),
                                       diff_metal_reduce_factor),
                                  RInt(info.iterm_gate_area))]

calculateViaPar(li, l, info) ==
  LET am == LayerInfoAt(li, l)
      diff_metal_reduce_factor == ReduceFactor(l, info)
  IN  IF info.iterm_diff_area # 0
        THEN [info EXCEPT
                !.PAR = Rat(am.diff_cut_factor * info.area,
                            info.iterm_gate_area),
                !.diff_PAR = DiffRatio(am.diff_cut_factor, info.area,
                                       diff_metal_reduce_factor,
                                       am.minus_diff_factor,
                                       am.plus_diff_factor, info)]
        ELSE [info EXCEPT
                !.PAR = Rat(am.cut_factor * info.area, info.iterm_gate_area),
                !.diff_PAR = RDiv(RMul(RInt(am.cut_factor * info.area),
                                       diff_metal_reduce_factor),
                                  RInt(info.iterm_gate_area))]

----------------------------------------------------------------------------
(* Checker: the four single checks.  margin is ratio_margin_.              *)

MarginFactor_added(margin) == Rat(100 + margin, 100)

\* 1.0 - ratio_margin_ / 100.0
MarginFactor(margin) == Rat(100 - margin, 100)

PartialFixedThreshold_unscaled(fixed, margin) == fixed

\* the thresholds checkPAR and checkPSR compare against
PartialFixedThreshold(fixed, margin) == RMul(fixed, MarginFactor(margin))
PartialPwlThreshold(pwl, margin) == RMul(pwl, MarginFactor(margin))
\* the thresholds checkCAR and checkCSR compare against
CumulativeFixedThreshold(fixed, margin) == fixed

CumulativePwlThreshold_scaled(pwl, margin) == RMul(pwl, MarginFactor(margin))

CumulativePwlThreshold(pwl, margin) == pwl

Exceeds_orEqual(ratio, threshold) == RGe(ratio, threshold)

\* the comparison of a ratio with its threshold
Exceeds(ratio, threshold) == RGt(ratio, threshold)

\* <<violation, checked>>
checkPAR(l, info, margin) ==
  LET antenna_rule == getDefaultAntennaRule(l)
      PAR_ratio == PartialFixedThreshold(antenna_rule.PAR, margin)
      diff_PAR_PWL_ratio ==
        PartialPwlThreshold(
          getPwlFactor(antenna_rule.diffPAR, info.iterm_diff_area, RZero),
          margin)
  IN  IF PAR_ratio # RZero
        THEN <<Exceeds(info.PAR, PAR_ratio), FALSE>>
        ELSE IF diff_PAR_PWL_ratio # RZero
               THEN <<Exceeds(info.diff_PAR, diff_PAR_PWL_ratio), TRUE>>
               ELSE <<FALSE, FALSE>>

checkPSR(l, info, margin) ==
  LET antenna_rule == getDefaultAntennaRule(l)
      PSR_ratio == PartialFixedThreshold(antenna_rule.PSR, margin)
      diff_PSR_PWL_ratio ==
        PartialPwlThreshold(
          getPwlFactor(antenna_rule.diffPSR, info.iterm_diff_area, RZero),
          margin)
  IN  IF PSR_ratio # RZero
        THEN <<Exceeds(info.PSR, PSR_ratio), FALSE>>
        ELSE IF diff_PSR_PWL_ratio # RZero
               THEN <<Exceeds(info.diff_PSR, diff_PSR_PWL_ratio), TRUE>>
               ELSE <<FALSE, FALSE>>

checkCAR(l, info, margin) ==
  LET antenna_rule == getDefaultAntennaRule(l)
      CAR_ratio == CumulativeFixedThreshold(antenna_rule.CAR, margin)
      diff_CAR_PWL_ratio ==
        CumulativePwlThreshold(
          getPwlFactor(antenna_rule.diffCAR, info.iterm_diff_area, RZero),
          margin)
  IN  IF CAR_ratio # RZero
        THEN Exceeds(info.CAR, CAR_ratio)
        ELSE IF diff_CAR_PWL_ratio # RZero
               THEN Exceeds(info.diff_CAR, diff_CAR_PWL_ratio)
               ELSE FALSE

checkCSR(l, info, margin) ==
  LET antenna_rule == getDefaultAntennaRule(l)
      CSR_ratio == CumulativeFixedThreshold(antenna_rule.CSR, margin)
      diff_CSR_PWL_ratio ==
        CumulativePwlThreshold(
          getPwlFactor(antenna_rule.diffCSR, info.iterm_diff_area, RZero),
          margin)
  IN  IF CSR_ratio # RZero
        THEN Exceeds(info.CSR, CSR_ratio)
        ELSE IF diff_CSR_PWL_ratio # RZero
               THEN Exceeds(info.diff_CSR, diff_CSR_PWL_ratio)
               ELSE FALSE

----------------------------------------------------------------------------
(* Helpers over sets and sequences *)

RECURSIVE SortedSeq(_)
SortedSeq(S) ==
  IF S = {} THEN <<>>
  ELSE LET m == CHOOSE x \in S : \A y \in S : x <= y
       IN  <<m>> \o SortedSeq(S \ {m})

RECURSIVE SumSeq(_)
SumSeq(s) == IF s = <<>> THEN 0 ELSE Head(s) + SumSeq(Tail(s))

----------------------------------------------------------------------------
(* odb accessors of a net.  A net is a record                               *)
(*   [special, hasWire,                                                     *)
(*    islands : layer -> sequence of [area, perimeter, lower, upper],       *)
(*    pins : sequence of [name, isInput, gateArea, diffArea, layer, touch]] *)
(* islands[l] are the polygons of set_by_layer[l] after the pin footprints  *)
(* were subtracted; lower / upper of a via island are the indices of the    *)
(* islands of the neighbour routing layers that intersect it; touch of a    *)
(* pin are the <<layer, index>> of the islands its boxes intersect on the   *)
(* box's layer and the layers right above and below it.                     *)

Pins(net) == {net.pins[i] : i \in 1 .. Len(net.pins)}
PinNamed(net, name) == CHOOSE p \in Pins(net) : p.name = name
gateArea(pin) == pin.gateArea
diffArea(pin) == pin.diffArea

isValidGate_anyInput(pin) == pin.isInput

isValidGate(pin) == pin.isInput /\ gateArea(pin) > 0

----------------------------------------------------------------------------
(* DSU *)

init_dsu(n) ==
  [parent |-> [i \in 0 .. (n - 1) |-> i], size |-> [i \in 0 .. (n - 1) |-> 1]]

RECURSIVE Root(_, _)
Root(parent, u) == IF u = parent[u] THEN u ELSE Root(parent, parent[u])

RECURSIVE PathTo(_, _)
PathTo(parent, u) ==
  IF u = parent[u] THEN {} ELSE {u} \cup PathTo(parent, parent[u])

find_set_oneStep(parent, u) == [root |-> parent[u], parent |-> parent]

\* find_set with its path compression: the root, and the parent array after
find_set(parent, u) ==
  LET r == Root(parent, u)
      path == PathTo(parent, u)
  IN  [root |-> r,
       parent |-> [x \in DOMAIN parent |-> IF x \in path THEN r ELSE parent[x]]]

dsu_same(parent, u, v) ==
  LET fu == find_set(parent, u)
      fv == find_set(fu.parent, v)
  IN  [same |-> fu.root = fv.root, parent |-> fv.parent]

union_set(d, u0, v0) ==
  LET fu == find_set(d.parent, u0)
      fv == find_set(fu.parent, v0)
      swap == d.size[fu.root] < d.size[fv.root]
      u == IF swap THEN fv.root ELSE fu.root
      v == IF swap THEN fu.root ELSE fv.root
  IN  [parent |-> [fv.parent EXCEPT ![v] = u],
       size |-> [d.size EXCEPT ![u] = d.size[u] + d.size[v]]]

----------------------------------------------------------------------------
(* LayerGeometry: buildLayerMaps up to the call of saveGates *)

\* ids are dealt in the order the layers of set_by_layer are visited; the
\* model visits them bottom-up
NodeIdBase(net, l) == SumSeq([k \in 1 .. (l - 1) |-> Len(net.islands[k])])

\* low_adj of the island at index i of layer l, after the via loop:
\*  - a via island points to its lower island when exactly one intersects;
\*  - an island of a routing layer points to every via of the layer below
\*    that intersects at most two islands of this layer, this one included.
LowAdj(net, l, i) ==
  IF getRoutingLevel(l) = 0
    THEN IF Cardinality(net.islands[l][i].lower) = 1
           THEN SortedSeq(net.islands[l][i].lower)
           ELSE <<>>
    ELSE IF getLowerLayer(l) = 0
           THEN <<>>
           ELSE LET vl == getLowerLayer(l)
                IN  SortedSeq({v \in 1 .. Len(net.islands[vl]) :
                                 /\ i \in net.islands[vl][v].upper
                                 /\ Cardinality(net.islands[vl][v].upper) <= 2})

BuildNodes(net) ==
  [l \in Layers |->
     [i \in 1 .. Len(net.islands[l]) |->
        [id |-> NodeIdBase(net, l) + i - 1,
         isVia |-> getRoutingLevel(l) = 0,
         area |-> net.islands[l][i].area,
         perimeter |-> net.islands[l][i].perimeter,
         low_adj |-> LowAdj(net, l, i),
         gates |-> {}]]]

NodeCount(net) == NodeIdBase(net, Len(tech) + 1)

----------------------------------------------------------------------------
(* Connectivity: saveGates *)

\* pin_nbrs[pin]: the ids of the intersecting islands, the pin's own layer
\* first, then the layer above, then the layer below
PinNbrs(net, nodes, pin) ==
  LET onLayer(l) ==
        [k \in 1 .. Cardinality({t \in pin.touch : t[1] = l}) |->
           nodes[l][SortedSeq({t[2] : t \in {x \in pin.touch : x[1] = l}})[k]].id]
      up == getUpperLayer(pin.layer)
      low == getLowerLayer(pin.layer)
  IN  onLayer(pin.layer)
        \o (IF up # 0 THEN onLayer(up) ELSE <<>>)
        \o (IF low # 0 THEN onLayer(low) ELSE <<>>)

\* the union loop without the dsu_same test before union_set
RECURSIVE UnionLowAdj_always(_, _, _, _, _)
UnionLowAdj_always(d, id_u, low_adj, lowerNodes, k) ==
  IF k > Len(low_adj) THEN d
  ELSE UnionLowAdj_always(union_set(d, id_u, lowerNodes[low_adj[k]].id),
                          id_u, low_adj, lowerNodes, k + 1)

\* the union loop over low_adj of one node
RECURSIVE UnionLowAdj(_, _, _, _, _)
UnionLowAdj(d, id_u, low_adj, lowerNodes, k) ==
  IF k > Len(low_adj) THEN d
  ELSE LET id_v == lowerNodes[low_adj[k]].id
           s == dsu_same(d.parent, id_u, id_v)
           d1 == [d EXCEPT !.parent = s.parent]
       IN  UnionLowAdj(IF ~s.same THEN union_set(d1, id_u, id_v) ELSE d1,
                       id_u, low_adj, lowerNodes, k + 1)

\* the first loop over the nodes of layer l
RECURSIVE UnionLayer(_, _, _, _)
UnionLayer(d, nodes, l, i) ==
  IF i > Len(nodes[l]) THEN d
  ELSE UnionLayer(
         IF getLowerLayer(l) # 0
           THEN UnionLowAdj(d, nodes[l][i].id, nodes[l][i].low_adj,
                            nodes[getLowerLayer(l)], 1)
           ELSE d,
         nodes, l, i + 1)

\* the scan of one pin's neighbours, up to the first one in the node's set
RECURSIVE ScanNbrs(_, _, _, _)
ScanNbrs(parent, id_u, nbrs, k) ==
  IF k > Len(nbrs) THEN [found |-> FALSE, parent |-> parent]
  ELSE LET s == dsu_same(parent, id_u, nbrs[k])
       IN  IF s.same THEN [found |-> TRUE, parent |-> s.parent]
           ELSE ScanNbrs(s.parent, id_u, nbrs, k + 1)

\* the gates of one node: the loop over pin_nbrs
RECURSIVE GatesOfNode(_, _, _, _, _, _)
GatesOfNode(net, nodes, parent, id_u, p, gates) ==
  IF p > Len(net.pins) THEN [gates |-> gates, parent |-> parent]
  ELSE LET r == ScanNbrs(parent, id_u, PinNbrs(net, nodes, net.pins[p]), 1)
       IN  GatesOfNode(net, nodes, r.parent, id_u, p + 1,
                       IF r.found THEN gates \cup {net.pins[p].name} ELSE gates)

\* the second loop over the nodes of layer l
RECURSIVE GatesLayer(_, _, _, _, _)
GatesLayer(net, nodes, parent, l, i) ==
  IF i > Len(nodes[l]) THEN [nodes |-> nodes, parent |-> parent]
  ELSE LET r == GatesOfNode(net, nodes, parent, nodes[l][i].id, 1,
                            nodes[l][i].gates)
       IN  GatesLayer(net, [nodes EXCEPT ![l][i].gates = r.gates],
                      r.parent, l, i + 1)

\* the walk from min_layer_ to the top layer
RECURSIVE SaveGatesFrom(_, _, _, _)
SaveGatesFrom(net, nodes, d, l) ==
  IF l = 0 THEN [nodes |-> nodes, dsu |-> d]
  ELSE LET d1 == UnionLayer(d, nodes, l, 1)
           g == GatesLayer(net, nodes, d1.parent, l, 1)
       IN  SaveGatesFrom(net, g.nodes, [d1 EXCEPT !.parent = g.parent],
                         getUpperLayer(l))

\* tech->findRoutingLayer(1)
min_layer_ == CHOOSE l \in Layers : getRoutingLevel(l) = 1

\* saveGates with all the unions made before the first gate is attached
RECURSIVE UnionFrom(_, _, _)
UnionFrom(d, nodes, l) ==
  IF l = 0 THEN d
  ELSE UnionFrom(UnionLayer(d, nodes, l, 1), nodes, getUpperLayer(l))

RECURSIVE GatesFrom(_, _, _, _)
GatesFrom(net, nodes, d, l) ==
  IF l = 0 THEN [nodes |-> nodes, dsu |-> d]
  ELSE LET g == GatesLayer(net, nodes, d.parent, l, 1)
       IN  GatesFrom(net, g.nodes, [d EXCEPT !.parent = g.parent],
                     getUpperLayer(l))

saveGates_unionsFirst(net, nodes) ==
  GatesFrom(net, nodes,
            UnionFrom(init_dsu(NodeCount(net)), nodes, min_layer_), min_layer_)

saveGates(net, nodes) ==
  SaveGatesFrom(net, nodes, init_dsu(NodeCount(net)), min_layer_)

buildLayerMaps(net) == saveGates(net, BuildNodes(net))

----------------------------------------------------------------------------
(* Ratio engine: calculateAreas, calculatePAR, calculateCAR *)

RECURSIVE SumGateArea(_, _)
SumGateArea(net, names) ==
  IF names = {} THEN 0
  ELSE LET n == CHOOSE x \in names : TRUE
       IN  gateArea(PinNamed(net, n)) + SumGateArea(net, names \ {n})

RECURSIVE SumDiffArea(_, _)
SumDiffArea(net, names) ==
  IF names = {} THEN 0
  ELSE LET n == CHOOSE x \in names : TRUE
       IN  diffArea(PinNamed(net, n)) + SumDiffArea(net, names \ {n})

\* the gates of a node that get a record
RecordedGates(net, node) ==
  {g \in node.gates : isValidGate(PinNamed(net, g))}

NodeInfo_validGatesOnly(net, l, node) ==
  [InfoType0 EXCEPT
     !.area = node.area,
     !.iterms = node.gates,
     !.iterm_gate_area = SumGateArea(net, RecordedGates(net, node)),
     !.iterm_diff_area = SumDiffArea(net, RecordedGates(net, node)),
     !.side_area = IF getRoutingLevel(l) # 0
                     THEN node.perimeter * tech[l].thickness
                     ELSE 0]

\* the InfoType calculateAreas fills for one node before it stores it
NodeInfo(net, l, node) ==
  [InfoType0 EXCEPT
     !.area = node.area,
     !.iterms = node.gates,
     !.iterm_gate_area = SumGateArea(net, node.gates),
     !.iterm_diff_area = SumDiffArea(net, node.gates),
     !.side_area = IF getRoutingLevel(l) # 0
                     THEN node.perimeter * tech[l].thickness
                     ELSE 0]

\* "put values on struct" for one node
StoreNode(net, info, l, node) ==
  LET ni == NodeInfo(net, l, node)
      valid == RecordedGates(net, node)
  IN  [g \in (DOMAIN info) \cup valid |->
         IF g \notin valid THEN info[g]
         ELSE IF g \notin DOMAIN info THEN (l :> ni)
         ELSE IF l \in DOMAIN info[g]
                THEN [info[g] EXCEPT ![l] = InfoAdd(@, ni)]
                ELSE info[g] @@ (l :> ni)]

RECURSIVE AreasNodes(_, _, _, _, _)
AreasNodes(net, nodes, info, l, i) ==
  IF i > Len(nodes[l]) THEN info
  ELSE AreasNodes(net, nodes,
                  IF nodes[l][i].gates = {} THEN info
                  ELSE StoreNode(net, info, l, nodes[l][i]),
                  l, i + 1)

RECURSIVE AreasLayers(_, _, _, _)
AreasLayers(net, nodes, info, l) ==
  IF l > Len(tech) THEN info
  ELSE AreasLayers(net, nodes, AreasNodes(net, nodes, info, l, 1), l + 1)

EmptyMap == [x \in {} |-> 0]

calculateAreas(net, nodes) == AreasLayers(net, nodes, EmptyMap, 1)

calculatePAR(li, info) ==
  [g \in DOMAIN info |->
     [l \in DOMAIN info[g] |->
        IF getRoutingLevel(l) = 0
          THEN calculateViaPar(li, l, info[g][l])
          ELSE calculateWirePar(li, l, info[g][l])]]

\* the layers calculatePAR reads layer_info_ for
RecordLayers(info) == UNION {DOMAIN info[g] : g \in DOMAIN info}

\* the record of layer l once the running sum holds it
Cumulate(r, sum) ==
  [r EXCEPT !.CAR = RAdd(r.CAR, sum.PAR),
            !.CSR = RAdd(r.CSR, sum.PSR),
            !.diff_CAR = RAdd(r.diff_CAR, sum.diff_PAR),
            !.diff_CSR = RAdd(r.diff_CSR, sum.diff_PSR)]

CumulatesWithVias_never(l) == FALSE

\* whether the record of layer l adds to the via sum (else to the wire sum)
CumulatesWithVias(l) == getRoutingLevel(l) = 0

RECURSIVE CarFrom(_, _, _, _)
CarFrom(gi, l, sumWire, sumVia) ==
  IF l = 0 THEN gi
  ELSE IF l \in DOMAIN gi
    THEN IF CumulatesWithVias(l)
           THEN LET s == InfoAdd(sumVia, gi[l])
                IN  CarFrom([gi EXCEPT ![l] = Cumulate(gi[l], s)],
                            getUpperLayer(l), sumWire, s)
           ELSE LET s == InfoAdd(sumWire, gi[l])
                IN  CarFrom([gi EXCEPT ![l] = Cumulate(gi[l], s)],
                            getUpperLayer(l), s, sumVia)
    ELSE CarFrom(gi, getUpperLayer(l), sumWire, sumVia)

calculateCAR(info) ==
  [g \in DOMAIN info |-> CarFrom(info[g], min_layer_, InfoType0, InfoType0)]

----------------------------------------------------------------------------
(* Checker: checkInfo *)

max_diode_count_per_gate == 10

\* node_has_violation of checkInfo, for a layer with an antenna rule
NodeHasViolation(l, r, margin) ==
  IF getRoutingLevel(l) # 0
    THEN \/ checkPAR(l, r, margin)[1]
         \/ checkPSR(l, r, margin)[1]
         \/ checkCAR(l, r, margin)
         \/ checkCSR(l, r, margin)
    ELSE \/ checkPAR(l, r, margin)[1]
         \/ checkCAR(l, r, margin)

RECURSIVE DiodeLoop_oneDiodePerStep(_, _, _, _, _, _, _)
DiodeLoop_oneDiodePerStep(li, l, violation_info, diode_diff_area, n_gates, margin, count) ==
  IF ~(checkPAR(l, violation_info, margin)[1]
         \/ checkPSR(l, violation_info, margin)[1])
    THEN [info |-> violation_info, count |-> count, warned |-> FALSE]
    ELSE LET info1 ==
               calculateWirePar(li, l,
                 [violation_info EXCEPT
                    !.iterm_diff_area = @ + diode_diff_area])
         IN  IF count + 1 > max_diode_count_per_gate
               THEN [info |-> info1, count |-> count + 1, warned |-> TRUE]
               ELSE DiodeLoop_oneDiodePerStep(li, l, info1, diode_diff_area,
                                              n_gates, margin, count + 1)

RECURSIVE DiodeLoop_noWarning(_, _, _, _, _, _, _)
DiodeLoop_noWarning(li, l, violation_info, diode_diff_area, n_gates, margin, count) ==
  IF ~(checkPAR(l, violation_info, margin)[1]
         \/ checkPSR(l, violation_info, margin)[1])
    THEN [info |-> violation_info, count |-> count, warned |-> FALSE]
    ELSE LET info1 ==
               calculateWirePar(li, l,
                 [violation_info EXCEPT
                    !.iterm_diff_area = @ + diode_diff_area * n_gates])
         IN  IF count + 1 > max_diode_count_per_gate
               THEN [info |-> info1, count |-> count + 1, warned |-> FALSE]
               ELSE DiodeLoop_noWarning(li, l, info1, diode_diff_area, n_gates,
                                        margin, count + 1)

\* the while loop of the diode estimate on violation_info
RECURSIVE DiodeLoop(_, _, _, _, _, _, _)
DiodeLoop(li, l, violation_info, diode_diff_area, n_gates, margin, count) ==
  IF ~(checkPAR(l, violation_info, margin)[1]
         \/ checkPSR(l, violation_info, margin)[1])
    THEN [info |-> violation_info, count |-> count, warned |-> FALSE]
    ELSE LET info1 ==
               calculateWirePar(li, l,
                 [violation_info EXCEPT
                    !.iterm_diff_area = @ + diode_diff_area * n_gates])
         IN  IF count + 1 > max_diode_count_per_gate
               THEN [info |-> info1, count |-> count + 1, warned |-> TRUE]
               ELSE DiodeLoop(li, l, info1, diode_diff_area, n_gates, margin,
                              count + 1)

StoredAfterDiodeLoop_inPlace(stored, violation_info) == violation_info

\* what the stored record layer_info.second is after the diode loop ran on
\* violation_info: the loop works on a copy
StoredAfterDiodeLoop(stored, violation_info) == stored

\* a line of the logger / the report file: its kind, the net, layer or count
\* it names, the pin it names, and whether it says (VIOLATED)
Line(kind, num, name, violated) ==
  [kind |-> kind, num |-> num, name |-> name, violated |-> violated]

\* what one of the four checks reports when called with report = true
RatioLine(kind, l, violated, verbose) ==
  IF violated \/ verbose THEN <<Line(kind, l, "", violated)>> ELSE <<>>

\* the re-check of checkInfo that reports the record r of layer l
CheckLines(l, r, margin, verbose) ==
  IF getRoutingLevel(l) # 0
    THEN RatioLine("PAR", l, checkPAR(l, r, margin)[1], verbose)
           \o RatioLine("PSR", l, checkPSR(l, r, margin)[1], verbose)
           \o RatioLine("CAR", l, checkCAR(l, r, margin), verbose)
           \o RatioLine("CSR", l, checkCSR(l, r, margin), verbose)
    ELSE RatioLine("PAR", l, checkPAR(l, r, margin)[1], verbose)
           \o RatioLine("CAR", l, checkCAR(l, r, margin), verbose)

\* the headers the report of a record starts with, and the flags after them
ReportHeaders(to, g, l, acc) ==
  (IF acc.net_is_reported THEN <<>> ELSE <<Line("Net", to.net, "", FALSE)>>)
    \o (IF acc.pin_is_reported THEN <<>> ELSE <<Line("Pin", 0, g, FALSE)>>)
    \o <<Line("Layer", l, "", FALSE)>>

\* the layers of S in the order the walk of a gate's records meets them
LayerOrder(layers, S) == SelectSeq(layers, LAMBDA l : l \in S)

\* the report of the record r of (g, l), when it is due
Reported(l, g, r, diode, margin, to, acc, node_has_violation) ==
  IF (node_has_violation \/ to.report) /\ ~diode.present
    THEN [acc EXCEPT
            !.log = @ \o ReportHeaders(to, g, l, acc)
                      \o CheckLines(l, r, margin, to.verbose),
            !.net_is_reported = TRUE,
            !.pin_is_reported = TRUE]
    ELSE acc

\* what the diode loop's result d leaves behind for the record r of (g, l)
AfterDiodeLoop(l, g, r, to, acc, d) ==
  [acc EXCEPT
     !.info[g][l] = StoredAfterDiodeLoop(r, d.info),
     !.pin_added[l] = @ \cup r.iterms,
     !.log = IF d.warned
               THEN Append(@, Line("warn15", to.net, "", FALSE))
               ELSE @,
     !.violations =
       IF d.count > 0
         THEN Append(@, [routing_level |-> getRoutingLevel(l),
                         gates |-> r.iterms,
                         diode_count_per_gate |-> d.count])
         ELSE @]

\* the part of the loop body that follows the report
Violating(li, l, g, r, diode, margin, to, acc, node_has_violation) ==
  IF ~node_has_violation THEN acc
  ELSE IF diode.present /\ getRoutingLevel(l) # 0 /\ g \notin acc.pin_added[l]
    THEN AfterDiodeLoop(l, g, r, to,
                        [acc EXCEPT !.pin_has_violation = TRUE],
                        DiodeLoop(li, l, r, diode.diffArea,
                                  Cardinality(r.iterms), margin, 0))
    ELSE [acc EXCEPT !.pin_has_violation = TRUE]

\* the loop body for a layer with an antenna rule
CheckRuled(li, l, g, r, diode, margin, to, acc, node_has_violation) ==
  Violating(li, l, g, r, diode, margin, to,
            Reported(l, g, r, diode, margin, to, acc, node_has_violation),
            node_has_violation)

\* the body of the loop over the layers of one gate; to is [verbose, report,
\* net]; acc is [info, pin_has_violation, violations, pin_added, log,
\* net_is_reported, pin_is_reported]
CheckLayer(li, g, l, diode, margin, to, acc) ==
  IF ~hasDefaultAntennaRule(l) THEN acc
  ELSE CheckRuled(li, l, g, acc.info[g][l], diode, margin, to, acc,
                  NodeHasViolation(l, acc.info[g][l], margin))

RECURSIVE CheckLayers(_, _, _, _, _, _, _, _)
CheckLayers(li, g, ls, k, diode, margin, to, acc) ==
  IF k > Len(ls) THEN acc
  ELSE CheckLayers(li, g, ls, k + 1, diode, margin, to,
                   CheckLayer(li, g, ls[k], diode, margin, to, acc))

\* the walk of info_ counting a net with a violating gate instead of the gates
AfterGate_countsNet(acc, a) ==
  [info |-> a.info,
   pin_violation_count |->
     IF a.pin_has_violation THEN 1 ELSE acc.pin_violation_count,
   violations |-> a.violations,
   pin_added |-> a.pin_added,
   log |-> IF a.pin_is_reported
             THEN Append(a.log, Line("blank", 0, "", FALSE))
             ELSE a.log,
   net_is_reported |-> a.net_is_reported]

\* the state of the walk of info_ after the layers of one gate: a is what
\* the loop over the layers left
AfterGate(acc, a) ==
  [info |-> a.info,
   pin_violation_count |->
     IF a.pin_has_violation
       THEN acc.pin_violation_count + 1
       ELSE acc.pin_violation_count,
   violations |-> a.violations,
   pin_added |-> a.pin_added,
   log |-> IF a.pin_is_reported
             THEN Append(a.log, Line("blank", 0, "", FALSE))
             ELSE a.log,
   net_is_reported |-> a.net_is_reported]

\* the loop over info_; order.gates is the order in which the walk of info_
\* meets its keys and order.layers the order in which the walk of a gate's
\* records meets the layers; acc is
\* [info, pin_violation_count, violations, pin_added, log, net_is_reported]
RECURSIVE CheckGates(_, _, _, _, _, _, _)
CheckGates(li, order, k, diode, margin, to, acc) ==
  IF k > Len(order.gates) THEN acc
  ELSE IF order.gates[k] \notin DOMAIN acc.info
    THEN CheckGates(li, order, k + 1, diode, margin, to, acc)
    ELSE CheckGates(li, order, k + 1, diode, margin, to,
           AfterGate(acc,
             CheckLayers(li, order.gates[k],
                         LayerOrder(order.layers,
                                    DOMAIN acc.info[order.gates[k]]),
                         1, diode, margin, to,
                         [info |-> acc.info,
                          pin_has_violation |-> FALSE,
                          violations |-> acc.violations,
                          pin_added |-> acc.pin_added,
                          log |-> acc.log,
                          net_is_reported |-> acc.net_is_reported,
                          pin_is_reported |-> FALSE])))

\* the end of checkInfo: the blank line after the report of the net
CloseReport(a) ==
  [a EXCEPT !.log = IF a.net_is_reported
                      THEN Append(@, Line("blank", 0, "", FALSE))
                      ELSE @]

\* checkInfo; lines are appended to log, violations to violations
checkInfo(li, info, violations, log0, diode, margin, to, order) ==
  CloseReport(CheckGates(li, order, 1, diode, margin, to,
                         [info |-> info,
                          pin_violation_count |-> 0,
                          violations |-> violations,
                          pin_added |-> [l \in Layers |-> {}],
                          log |-> log0,
                          net_is_reported |-> FALSE]))

----------------------------------------------------------------------------
(* The inputs: toy tech of two metal layers and one via layer, and nets of  *)
(* at most MaxWires islands per metal layer and MaxVias via islands.        *)

Half == <<1, 2>>

\* PWL tables
PwlNone == <<>>
PwlConst == <<(<<0, RInt(2)>>)>>
PwlRising == <<(<<0, RInt(1)>>), (<<2, RInt(3)>>)>>
PwlFromZero == <<(<<0, RZero>>), (<<1, RInt(2)>>)>>
PwlReduce == <<(<<0, ROne>>), (<<1, Half>>)>>

BaseRule ==
  [areaFactor |-> 1, areaFactorDiffUseOnly |-> FALSE,
   sideAreaFactor |-> 1, sideAreaFactorDiffUseOnly |-> FALSE,
   areaMinusDiffFactor |-> 0, gatePlusDiffFactor |-> 0,
   hasAntennaCumRoutingPlusCut |-> FALSE,
   areaDiffReduce |-> PwlNone,
   PAR |-> RZero, PSR |-> RZero, CAR |-> RZero, CSR |-> RZero,
   diffPAR |-> PwlNone, diffPSR |-> PwlNone,
   diffCAR |-> PwlNone, diffCSR |-> PwlNone]

\* rules that differ in their thresholds
ThresholdRules ==
  {[BaseRule EXCEPT !.PAR = RInt(par), !.PSR = RInt(psr), !.CAR = RInt(car),
                    !.CSR = RInt(psr),
                    !.diffPAR = pwl, !.diffPSR = pwl,
                    !.diffCAR = pwl, !.diffCSR = pwl] :
     par \in {0, 1, 2}, psr \in {0, 5}, car \in {0, 2},
     pwl \in {PwlNone, PwlRising}}

\* rules that differ in their factors
FactorRules ==
  {[BaseRule EXCEPT !.areaFactor = f, !.sideAreaFactor = f,
                    !.areaFactorDiffUseOnly = only,
                    !.sideAreaFactorDiffUseOnly = only,
                    !.areaMinusDiffFactor = minus,
                    !.gatePlusDiffFactor = plus,
                    !.areaDiffReduce = reduce,
                    !.PAR = RInt(par), !.diffPAR = PwlRising,
                    !.diffPSR = PwlRising, !.CAR = RInt(2)] :
     f \in {1, 2}, only \in BOOLEAN, minus \in {0, 1}, plus \in {0, 1},
     reduce \in {PwlNone, PwlReduce}, par \in {1}}

\* the stack metal1 / via1 / metal2 with one rule on the layers in ruled
TechOf(rule, ruled) ==
  [l \in 1 .. 3 |->
     [name |-> <<"metal1", "via1", "metal2">>[l],
      routingLevel |-> <<1, 0, 2>>[l],
      thickness |-> <<1, 0, 1>>[l],
      hasRule |-> l \in ruled,
      rule |-> rule]]

DefaultRule == [BaseRule EXCEPT !.PAR = RInt(2), !.CAR = RInt(4)]
DefaultTech == TechOf(DefaultRule, {1, 2, 3})
\* the default rule with "cumulative includes cuts" on every layer
PlusCutTech ==
  TechOf([DefaultRule EXCEPT !.hasAntennaCumRoutingPlusCut = TRUE], {1, 2, 3})

\* islands of a routing layer: a wire of width 1 and length 2^(i-1)
Wire(i) == [area |-> 2 ^ (i - 1), perimeter |-> 2 ^ i + 2,
            lower |-> {}, upper |-> {}]
Cut(lower, upper) == [area |-> 1, perimeter |-> 4,
                      lower |-> lower, upper |-> upper]

WireIds == 1 .. MaxWires
ViaIds == 1 .. MaxVias
WireSeq == [i \in WireIds |-> Wire(i)]

\* the via i that joins the islands right below and above it, and the one
\* that joins the island below it to the next island above
WireAt(k) == ((k - 1) % MaxWires) + 1
StraightVia(i) == Cut({WireAt(i)}, {WireAt(i)})
CrossedVia(i) == Cut({WireAt(i)}, {WireAt(i + 1)})

\* all vias straight, or all crossed
PairViaSeqs ==
  {[i \in ViaIds |-> StraightVia(i)], [i \in ViaIds |-> CrossedVia(i)]}
\* every way the last via can intersect the islands below and above, the
\* other vias straight or crossed
FreeViaSeqs ==
  {[i \in ViaIds |->
      IF i = MaxVias THEN c
      ELSE IF x[i] THEN StraightVia(i) ELSE CrossedVia(i)] :
     c \in {Cut(lo, up) : lo \in SUBSET WireIds, up \in SUBSET WireIds},
     x \in [ViaIds -> BOOLEAN]}
\* vias that join one island below to one island above, the first a1-c1
SimpleViaSeqs ==
  {vs \in [ViaIds -> {Cut({lo}, {up}) : lo \in WireIds, up \in WireIds}] :
     vs[1] = Cut({1}, {1})}

PinOf(name, isInput, ga, da, layer, touch) ==
  [name |-> name, isInput |-> isInput, gateArea |-> ga, diffArea |-> da,
   layer |-> layer, touch |-> touch]

\* where the second pin sits: on a1 with the first, on a2, under the last
\* via, on c1
SecondTouches == {{<<1, 1>>}, {<<1, 2>>}, {<<2, MaxVias>>}, {<<3, 1>>}}
SecondLayer(touch) == IF <<3, 1>> \in touch THEN 3 ELSE 1

\* input with gate area, input without, output with diffusion, output with
\* gate area
SecondKinds ==
  {<<TRUE, 1, 0>>, <<TRUE, 0, 1>>, <<FALSE, 0, 1>>, <<FALSE, 1, 0>>}

NetOf(vias, p1, p2) ==
  [special |-> FALSE, hasWire |-> TRUE,
   islands |-> <<WireSeq, vias, WireSeq>>,
   pins |-> <<p1, p2>>]

\* nets that differ in their geometry
GeometryNets ==
  {NetOf(vs, PinOf("p1", TRUE, 1, 0, 1, {<<1, 1>>}),
         PinOf("p2", TRUE, 1, 0, SecondLayer(t2), t2)) :
     vs \in FreeViaSeqs \cup SimpleViaSeqs,
     t2 \in SecondTouches \ {{<<1, 1>>}}}

\* nets that differ in their pins
PinNets ==
  {NetOf(vs, PinOf("p1", TRUE, ga, da, 1, t1),
         PinOf("p2", k[1], k[2], k[3], SecondLayer(t2), t2)) :
     vs \in PairViaSeqs, ga \in 1 .. MaxGateArea, da \in {0, 1},
     t1 \in {{<<1, 1>>}, {<<1, 1>>, <<1, 2>>}}, t2 \in SecondTouches,
     k \in SecondKinds}

\* a few nets for the techs that differ in their rules
RuleNets ==
  {NetOf(vs, PinOf("p1", TRUE, 1, da, 1, {<<1, 1>>}),
         PinOf("p2", TRUE, 1, 0, 3, {<<3, 1>>})) :
     vs \in PairViaSeqs, da \in {0, MaxDiffArea}}

OtherNets ==
  {[NetOf(vs, PinOf("p1", TRUE, 1, 0, 1, {<<1, 1>>}),
          PinOf("p2", TRUE, 1, 0, 3, {<<3, 1>>}))
      EXCEPT !.special = sp, !.hasWire = hw] :
     vs \in PairViaSeqs, sp \in BOOLEAN, hw \in BOOLEAN}

\* a rule whose cumulative side threshold lies below its partial one
SideRule == [BaseRule EXCEPT !.PSR = RInt(3), !.CSR = RInt(1)]
SideTech == TechOf(SideRule, {1, 2, 3})

\* the nets of two valid gates without diffusion
TwoGateNets ==
  {n \in PinNets :
     /\ n.pins[1].gateArea = 1 /\ n.pins[1].diffArea = 0
     /\ n.pins[2].isInput /\ n.pins[2].gateArea > 0}

\* a gate on a1, a driver on c1, a via a1-c1 and a second via anywhere
JoinedAboveNets ==
  {NetOf(vs, PinOf("p1", TRUE, 1, 0, 1, {<<1, 1>>}),
         PinOf("p2", FALSE, 0, 1, 3, {<<3, 1>>})) : vs \in SimpleViaSeqs}

Databases ==
  ({DefaultTech} \X (GeometryNets \cup OtherNets \cup JoinedAboveNets))
  \cup ({DefaultTech} \X PinNets)
  \cup ({SideTech} \X TwoGateNets)
  \cup (({TechOf(r, {1, 2, 3}) : r \in ThresholdRules \cup FactorRules}
            \cup {TechOf(DefaultRule, {1}), PlusCutTech})
          \X RuleNets)

Margins == {0, 20}
NoDiode == [present |-> FALSE, diffArea |-> 0]
Diodes == {NoDiode}
            \cup {[present |-> TRUE, diffArea |-> d] : d \in {0, MaxDiffArea}}

RECURSIVE SeqPerms(_)
SeqPerms(S) ==
  IF S = {} THEN {<<>>}
  ELSE UNION {{<<x>> \o p : p \in SeqPerms(S \ {x})} : x \in S}

\* the orders in which checkInfo can walk info_ (keys gates) and the records
\* of a gate
Orders(gates) == [gates : SeqPerms(gates), layers : SeqPerms(Layers)]

----------------------------------------------------------------------------
(* The checker as a state machine.  A call of getAntennaViolations2 runs   *)
(* checkNet step by step: pc names the call of checkNet that runs next.    *)
(* diode_mterm and ratio_margin are first read by checkInfo and are drawn  *)
(* there.                                                                  *)

NoNodes == [l \in 1 .. 3 |-> <<>>]

\* no call of checkAntennas is running
NoRun == [verbose |-> FALSE, report |-> FALSE, todo |-> <<>>]

\* verbose and report as getAntennaViolations2 passes them for net n
Quiet(n) == [verbose |-> FALSE, report |-> FALSE, net |-> n]

\* the data errors buildLayerMaps reports for the vias of a net: more than
\* two islands intersect a via on the upper side, or on the lower side
RECURSIVE ViaErrorsFrom(_, _, _, _)
ViaErrorsFrom(net, n, l, i) ==
  IF i > Len(net.islands[l]) THEN <<>>
  ELSE (IF Cardinality(net.islands[l][i].upper) > 2
          THEN <<Line("via_error", n, "upper", FALSE)>> ELSE <<>>)
         \o (IF Cardinality(net.islands[l][i].lower) > 2
               THEN <<Line("via_error", n, "lower", FALSE)>> ELSE <<>>)
         \o ViaErrorsFrom(net, n, l, i + 1)

ViaErrors(net, n) == ViaErrorsFrom(net, n, 2, 1)

\* the checker after construction, on a loaded database
Init ==
  /\ \E db \in Databases : tech = db[1] /\ nets = <<db[2]>>
  /\ layer_info_ = EmptyMap
  /\ node_by_layer_map_ = NoNodes
  /\ node_count_ = 0
  /\ dsu_parent_ = EmptyMap
  /\ dsu_size_ = EmptyMap
  /\ info_ = EmptyMap
  /\ antenna_violations_ = <<>>
  /\ ratio_margin_ = 0
  /\ net_violation_count = 0
  /\ pin_violation_count = 0
  /\ pc = "idle"
  /\ cur = 0
  /\ rec = InfoType0
  /\ verdict = EmptyMap
  /\ diode_mterm = NoDiode
  /\ log = <<>>
  /\ net_violation_count_ = 0
  /\ grt_routes = FALSE
  /\ net_wires_made = FALSE
  /\ run = NoRun

initAntennaRules ==
  /\ pc = "idle"
  /\ layer_info_' = [l \in Layers |-> AntennaModelOf(l)]
  /\ UNCHANGED <<tech, nets, node_by_layer_map_, node_count_, dsu_parent_,
                 dsu_size_, info_, antenna_violations_, ratio_margin_,
                 net_violation_count, pin_violation_count, pc, cur, rec,
                 verdict, diode_mterm, log>>
  /\ UNCHANGED runVars

\* db_net->getWire() inside checkNet: the routed wire of the net, or the
\* wire makeNetWires made from its global route
getWire(n) == nets[n].hasWire \/ net_wires_made

\* getAntennaViolations2 up to the first call inside checkNet
getAntennaViolations2(n) ==
  /\ pc = "idle"
  /\ antenna_violations_' = <<>>
  /\ IF nets[n].special
       THEN UNCHANGED <<net_violation_count, pin_violation_count, pc, cur>>
       ELSE /\ net_violation_count' = 0
            /\ pin_violation_count' = 0
            /\ IF getWire(n)
                 THEN pc' = "buildLayerMaps" /\ cur' = n
                 ELSE UNCHANGED <<pc, cur>>
  /\ diode_mterm' = NoDiode
  /\ log' = <<>>
  /\ UNCHANGED <<tech, nets, layer_info_, node_by_layer_map_, node_count_,
                 dsu_parent_, dsu_size_, info_, ratio_margin_, rec, verdict>>
  /\ UNCHANGED runVars

BuildLayerMaps ==
  /\ pc = "buildLayerMaps"
  /\ \E b \in {buildLayerMaps(nets[cur])} :
       /\ node_by_layer_map_' = b.nodes
       /\ dsu_parent_' = b.dsu.parent
       /\ dsu_size_' = b.dsu.size
  /\ node_count_' = NodeCount(nets[cur])
  /\ info_' = EmptyMap
  /\ pc' = "calculateAreas"
  /\ log' = log \o ViaErrors(nets[cur], cur)
  /\ UNCHANGED <<tech, nets, layer_info_, antenna_violations_, ratio_margin_,
                 net_violation_count, pin_violation_count, cur, rec, verdict,
                 diode_mterm>>
  /\ UNCHANGED runVars

CalculateAreas ==
  /\ pc = "calculateAreas"
  /\ info_' = calculateAreas(nets[cur], node_by_layer_map_)
  /\ pc' = "calculatePAR"
  /\ UNCHANGED <<tech, nets, layer_info_, node_by_layer_map_, node_count_,
                 dsu_parent_, dsu_size_, antenna_violations_, ratio_margin_,
                 net_violation_count, pin_violation_count, cur, rec, verdict,
                 diode_mterm, log>>
  /\ UNCHANGED runVars

CalculatePAR ==
  /\ pc = "calculatePAR"
  /\ info_' = calculatePAR(layer_info_, info_)
  /\ layer_info_' = LayerInfoTouch(layer_info_, RecordLayers(info_))
  /\ pc' = "calculateCAR"
  /\ UNCHANGED <<tech, nets, node_by_layer_map_, node_count_, dsu_parent_,
                 dsu_size_, antenna_violations_, ratio_margin_,
                 net_violation_count, pin_violation_count, cur, rec, verdict,
                 diode_mterm, log>>
  /\ UNCHANGED runVars

CalculateCAR ==
  /\ pc = "calculateCAR"
  /\ info_' = calculateCAR(info_)
  /\ pc' = "checkInfo"
  /\ UNCHANGED <<tech, nets, layer_info_, node_by_layer_map_, node_count_,
                 dsu_parent_, dsu_size_, antenna_violations_, ratio_margin_,
                 net_violation_count, pin_violation_count, cur, rec, verdict,
                 diode_mterm, log>>
  /\ UNCHANGED runVars

\* checkInfo and the rest of checkNet
CheckInfo(diode, margin, order) ==
  /\ pc = "checkInfo"
  /\ \E k \in {checkInfo(layer_info_, info_, antenna_violations_, log, diode,
                         margin, Quiet(cur), order)} :
       /\ info_' = k.info
       /\ antenna_violations_' = k.violations
       /\ log' = k.log
       /\ net_violation_count' =
            IF k.pin_violation_count > 0 THEN net_violation_count + 1
            ELSE net_violation_count
       /\ pin_violation_count' = pin_violation_count + k.pin_violation_count
  /\ ratio_margin_' = margin
  /\ diode_mterm' = diode
  /\ pc' = "idle"
  /\ cur' = 0
  /\ UNCHANGED <<tech, nets, layer_info_, node_by_layer_map_, node_count_,
                 dsu_parent_, dsu_size_, rec, verdict>>
  /\ UNCHANGED runVars

Next ==
  \/ initAntennaRules
  \/ \E n \in DOMAIN nets : getAntennaViolations2(n)
  \/ BuildLayerMaps
  \/ CalculateAreas
  \/ CalculatePAR
  \/ CalculateCAR
  \/ \E diode \in Diodes, margin \in Margins :
       \E order \in Orders(DOMAIN info_) :
         CheckInfo(diode, margin, order)

Spec == Init /\ [][Next]_vars

----------------------------------------------------------------------------
(* The four single checks on their own: one record on the lowest routing  *)
(* layer, checked as checkInfo checks it under one margin after another.   *)

Ratios == {RZero, Half, ROne, <<8, 5>>, RInt(2), <<11, 5>>, RInt(3)}
SideRatios == {ROne, RInt(2)}
CheckMargins == {0, 20, 50}

\* a record with the partial and cumulative area ratios p, the side ratios
\* s, the diffusion variants q and the diffusion area d
RecordOf(p, s, q, d) ==
  [InfoType0 EXCEPT !.PAR = p, !.CAR = p, !.PSR = s, !.CSR = s,
                    !.diff_PAR = q, !.diff_PSR = q,
                    !.diff_CAR = q, !.diff_CSR = q,
                    !.iterm_gate_area = 1, !.iterm_diff_area = d]

\* a rule with the fixed threshold t and the PWL thresholds pwl on all four
RuleOf(t, pwl) ==
  [BaseRule EXCEPT !.PAR = RInt(t), !.PSR = RInt(t), !.CAR = RInt(t),
                   !.CSR = RInt(t),
                   !.diffPAR = pwl, !.diffPSR = pwl,
                   !.diffCAR = pwl, !.diffCSR = pwl]

InitCheck ==
  /\ \E t \in 0 .. 2, pwl \in {PwlNone, PwlConst, PwlRising, PwlFromZero} :
       tech = TechOf(RuleOf(t, pwl), {1, 2, 3})
  /\ \E p \in Ratios, s \in SideRatios, q \in Ratios, d \in 0 .. MaxDiffArea :
       rec = RecordOf(p, s, q, d)
  /\ nets = <<>>
  /\ layer_info_ = EmptyMap
  /\ node_by_layer_map_ = NoNodes
  /\ node_count_ = 0
  /\ dsu_parent_ = EmptyMap
  /\ dsu_size_ = EmptyMap
  /\ info_ = EmptyMap
  /\ antenna_violations_ = <<>>
  /\ ratio_margin_ = 0
  /\ net_violation_count = 0
  /\ pin_violation_count = 0
  /\ pc = "check"
  /\ cur = 0
  /\ verdict = EmptyMap
  /\ diode_mterm = NoDiode
  /\ log = <<>>
  /\ net_violation_count_ = 0
  /\ grt_routes = FALSE
  /\ net_wires_made = FALSE
  /\ run = NoRun

\* checkInfo's ratio_margin_ = ratio_margin and its four checks of a record
CheckRecord(margin) ==
  /\ pc = "check"
  /\ margin \notin DOMAIN verdict
  /\ ratio_margin_' = margin
  /\ verdict' = verdict @@
       (margin :> [par |-> checkPAR(min_layer_, rec, margin),
                   psr |-> checkPSR(min_layer_, rec, margin),
                   car |-> checkCAR(min_layer_, rec, margin),
                   csr |-> checkCSR(min_layer_, rec, margin)])
  /\ UNCHANGED <<tech, nets, layer_info_, node_by_layer_map_, node_count_,
                 dsu_parent_, dsu_size_, info_, antenna_violations_,
                 net_violation_count, pin_violation_count, pc, cur, rec,
                 diode_mterm, log>>
  /\ UNCHANGED runVars

NextCheck == \E margin \in CheckMargins : CheckRecord(margin)

SpecCheck == InitCheck /\ [][NextCheck]_vars

----------------------------------------------------------------------------
(* checkAntennas: a run over one selected net, or over all the nets of the *)
(* block.  pc = "checkNet" while the run has nets to check or has to end;  *)
(* an error of the logger ends the run where it is raised.                 *)

\* haveRoutedNets: a net that is not special has a routed wire
haveRoutedNets == \E n \in DOMAIN nets : ~nets[n].special /\ nets[n].hasWire

\* block_->getNets() with the special nets
RECURSIVE NetsToCheck_withSpecial(_)
NetsToCheck_withSpecial(n) ==
  IF n > Len(nets) THEN <<>> ELSE <<n>> \o NetsToCheck_withSpecial(n + 1)

\* block_->getNets() without the special nets, in the order of the block
RECURSIVE NetsToCheck(_)
NetsToCheck(n) ==
  IF n > Len(nets) THEN <<>>
  ELSE (IF nets[n].special THEN <<>> ELSE <<n>>) \o NetsToCheck(n + 1)

\* the areas checkNet collects for net n
AreasOf(n) == calculateAreas(nets[n], buildLayerMaps(nets[n]).nodes)

\* a straight net with the gate candidate p1 on metal1 and the driver p2 on
\* metal2
StraightNet(isInput, touch) ==
  NetOf([i \in ViaIds |-> StraightVia(i)],
        PinOf("p1", isInput, 1, 0, 1, touch),
        PinOf("p2", FALSE, 0, 1, 3, {<<3, 1>>}))

\* a net of two wires that are not joined, each with a gate of its own
TwoWireNet ==
  NetOf([i \in ViaIds |-> Cut({}, {})],
        PinOf("p1", TRUE, 1, 0, 1, {<<1, 1>>, <<1, 2>>}),
        PinOf("p2", TRUE, 1, 0, 3, {<<3, 1>>, <<3, 2>>}))

\* a routed net whose two gates violate; a net whose gate violates, not
\* routed; a routed one whose gate passes; one without a gate, not routed; a
\* special net
AntennaNets ==
  {TwoWireNet,
   [StraightNet(TRUE, {<<1, 1>>, <<1, 2>>}) EXCEPT !.hasWire = FALSE],
   StraightNet(TRUE, {<<1, 1>>}),
   [StraightNet(FALSE, {<<1, 1>>}) EXCEPT !.hasWire = FALSE],
   [StraightNet(TRUE, {<<1, 1>>, <<1, 2>>}) EXCEPT !.special = TRUE]}

\* the techs of a run: every layer with the default rule, no layer with a
\* rule
AntennaTechs == {DefaultTech, TechOf(DefaultRule, {})}

NetCount == 2

InitAntennas ==
  /\ tech \in AntennaTechs
  /\ nets \in [1 .. NetCount -> AntennaNets]
  /\ layer_info_ = EmptyMap
  /\ node_by_layer_map_ = NoNodes
  /\ node_count_ = 0
  /\ dsu_parent_ = EmptyMap
  /\ dsu_size_ = EmptyMap
  /\ info_ = EmptyMap
  /\ antenna_violations_ = <<>>
  /\ ratio_margin_ = 0
  /\ net_violation_count = 0
  /\ pin_violation_count = 0
  /\ pc = "idle"
  /\ cur = 0
  /\ rec = InfoType0
  /\ verdict = EmptyMap
  /\ diode_mterm = NoDiode
  /\ log = <<>>
  /\ net_violation_count_ = 0
  /\ grt_routes = FALSE
  /\ net_wires_made = FALSE
  /\ run = NoRun

\* utl::Logger::error returns to its caller
LoggerErrorThrows_returns == FALSE

\* utl::Logger::error logs the message and throws: the call that raised it
\* ends there
LoggerErrorThrows == TRUE

\* checkAntennas up to the first call of checkNet; sel = 0: no net selected,
\* grt: what global_route_source_->haveRoutes() answers
checkAntennas(sel, verbose, grt) ==
  /\ pc = "idle"
  /\ layer_info_' = [l \in Layers |-> AntennaModelOf(l)]
  /\ grt_routes' = grt
  /\ LET drt_routes == haveRoutedNets
         no_routes == ~grt /\ ~drt_routes
         special == sel # 0 /\ nets[sel].special
         errors ==
           (IF no_routes THEN <<Line("error8", 0, "", FALSE)>> ELSE <<>>)
             \o (IF special THEN <<Line("error14", sel, "", FALSE)>>
                 ELSE <<>>)
     IN  IF no_routes /\ LoggerErrorThrows
           THEN /\ log' = <<Line("error8", 0, "", FALSE)>>
                /\ UNCHANGED <<net_violation_count, pin_violation_count, pc,
                               net_wires_made, run>>
           ELSE /\ net_wires_made' = (net_wires_made \/ (grt /\ ~drt_routes))
                /\ net_violation_count' = 0
                /\ pin_violation_count' = 0
                /\ log' = errors
                /\ IF special /\ LoggerErrorThrows
                     THEN UNCHANGED <<pc, run>>
                     ELSE /\ pc' = "checkNet"
                          /\ run' = [verbose |-> verbose,
                                     report |-> sel # 0,
                                     todo |-> IF special THEN <<>>
                                              ELSE IF sel # 0 THEN <<sel>>
                                              ELSE NetsToCheck(1)]
  /\ UNCHANGED <<tech, nets, node_by_layer_map_, node_count_, dsu_parent_,
                 dsu_size_, info_, antenna_violations_, ratio_margin_, cur,
                 rec, verdict, diode_mterm, net_violation_count_>>

\* checkNet up to checkInfo: the graph b, the touched rule store and the
\* records made of the areas a
Analysed(li, b, a) ==
  [nodes |-> b.nodes, dsu |-> b.dsu,
   layer_info |-> LayerInfoTouch(li, RecordLayers(a)),
   info |-> calculateCAR(calculatePAR(li, a))]

AnalysedGraph(li, net, b) == Analysed(li, b, calculateAreas(net, b.nodes))

analyseNet(li, net) == AnalysedGraph(li, net, buildLayerMaps(net))

\* one call of checkNet by checkAntennas
CheckNet(order) ==
  /\ pc = "checkNet"
  /\ run.todo # <<>>
  /\ LET n == Head(run.todo)
     IN  IF getWire(n)
           THEN \E b \in {analyseNet(layer_info_, nets[n])} :
                \E k \in {checkInfo(b.layer_info, b.info, antenna_violations_,
                                    log \o ViaErrors(nets[n], n), NoDiode, 0,
                                    [verbose |-> run.verbose,
                                     report |-> run.report, net |-> n],
                                    order)} :
                    /\ node_by_layer_map_' = b.nodes
                    /\ dsu_parent_' = b.dsu.parent
                    /\ dsu_size_' = b.dsu.size
                    /\ node_count_' = NodeCount(nets[n])
                    /\ layer_info_' = b.layer_info
                    /\ info_' = k.info
                    /\ antenna_violations_' = k.violations
                    /\ log' = k.log
                    /\ ratio_margin_' = 0
                    /\ diode_mterm' = NoDiode
                    /\ net_violation_count' =
                         IF k.pin_violation_count > 0
                           THEN net_violation_count + 1
                           ELSE net_violation_count
                    /\ pin_violation_count' =
                         pin_violation_count + k.pin_violation_count
           ELSE UNCHANGED <<node_by_layer_map_, dsu_parent_, dsu_size_,
                            node_count_, layer_info_, info_,
                            antenna_violations_, log, ratio_margin_,
                            diode_mterm, net_violation_count,
                            pin_violation_count>>
  /\ run' = [run EXCEPT !.todo = Tail(@)]
  /\ UNCHANGED <<tech, nets, pc, cur, rec, verdict, net_violation_count_,
                 grt_routes, net_wires_made>>

\* the end of checkAntennas, after the last checkNet
FinishAntennas ==
  /\ pc = "checkNet"
  /\ run.todo = <<>>
  /\ log' = log \o <<Line("info2", net_violation_count, "", FALSE),
                     Line("metric_nets", net_violation_count, "", FALSE),
                     Line("info1", pin_violation_count, "", FALSE),
                     Line("metric_pins", pin_violation_count, "", FALSE)>>
  /\ net_wires_made' =
       (IF grt_routes /\ ~haveRoutedNets THEN FALSE ELSE net_wires_made)
  /\ net_violation_count_' = net_violation_count
  /\ pc' = "idle"
  /\ run' = NoRun
  /\ UNCHANGED <<tech, nets, layer_info_, node_by_layer_map_, node_count_,
                 dsu_parent_, dsu_size_, info_, antenna_violations_,
                 ratio_margin_, net_violation_count, pin_violation_count, cur,
                 rec, verdict, diode_mterm, grt_routes>>

\* the orders in which the checkNet that runs next can walk its records
NextOrders ==
  IF pc = "checkNet" /\ run.todo # <<>>
    THEN Orders(DOMAIN AreasOf(Head(run.todo)))
    ELSE {}

NextAntennas ==
  \/ \E sel \in 0 .. Len(nets), verbose \in BOOLEAN, grt \in BOOLEAN :
       checkAntennas(sel, verbose, grt)
  \/ \E order \in NextOrders : CheckNet(order)
  \/ FinishAntennas
  \/ \E n \in DOMAIN nets : getAntennaViolations2(n)
  \/ BuildLayerMaps
  \/ CalculateAreas
  \/ CalculatePAR
  \/ CalculateCAR
  \/ \E diode \in Diodes, margin \in Margins :
       \E order \in Orders(DOMAIN info_) :
         CheckInfo(diode, margin, order)

SpecAntennas == InitAntennas /\ [][NextAntennas]_vars

----------------------------------------------------------------------------
(* Properties of checkInfo (Spec) *)

\* C1: whatever diode mterm a check is given, it counts the violating pins
\* and the violating net as the check without a diode does, leaves every
\* stored (gate, layer) record as it was, and only appends to the
\* violation list.
C1_DiodeKeepsCounts ==
  [][pc = "checkInfo" =>
       LET plain == checkInfo(layer_info_, info_, <<>>, <<>>, NoDiode,
                              ratio_margin_', Quiet(cur),
                              CHOOSE o \in Orders(DOMAIN info_) : TRUE)
       IN  /\ pin_violation_count'
                = pin_violation_count + plain.pin_violation_count
           /\ net_violation_count'
                = net_violation_count
                    + (IF plain.pin_violation_count > 0 THEN 1 ELSE 0)
           /\ info_' = info_
           /\ Len(antenna_violations_') >= Len(antenna_violations_)
           /\ SubSeq(antenna_violations_', 1, Len(antenna_violations_))
                = antenna_violations_]_vars

\* a check with a diode has run its diode loop and counted a violating pin
C1_Witness ==
  /\ pc = "idle"
  /\ antenna_violations_ # <<>>
  /\ pin_violation_count > 0
  /\ net_violation_count = 1

----------------------------------------------------------------------------
(* Properties of saveGates (Spec) *)

\* the via adjacencies recorded on the layers from min_layer_ up to L, as
\* pairs of island ids
Edges(L) ==
  {<<node_by_layer_map_[l][i].id,
     node_by_layer_map_[getLowerLayer(l)][node_by_layer_map_[l][i].low_adj[k]].id>> :
     <<l, i, k>> \in
       {t \in Layers \X (1 .. (MaxWires + MaxVias)) \X (1 .. (MaxWires + MaxVias)) :
          /\ t[1] >= min_layer_ /\ t[1] <= L
          /\ getLowerLayer(t[1]) # 0
          /\ t[2] \in DOMAIN node_by_layer_map_[t[1]]
          /\ t[3] \in DOMAIN node_by_layer_map_[t[1]][t[2]].low_adj}}

\* the ids joined to those of S by the pairs of E
RECURSIVE Closure(_, _)
Closure(S, E) ==
  LET T == S \cup {e[2] : e \in {x \in E : x[1] \in S}}
             \cup {e[1] : e \in {x \in E : x[2] \in S}}
  IN  IF T = S THEN S ELSE Closure(T, E)

\* the pins with a recorded touching island joined to the island id through
\* the adjacencies of the layers up to L
ReachablePins(id, L) ==
  {p.name : p \in
     {q \in Pins(nets[cur]) :
        \E k \in DOMAIN PinNbrs(nets[cur], node_by_layer_map_, q) :
          PinNbrs(nets[cur], node_by_layer_map_, q)[k]
            \in Closure({id}, Edges(L))}}

\* C6: after saveGates the gate set of every island of a layer L is the
\* set of the pins that have a recorded touching island joined to it
\* through via adjacencies among the islands of the layers up to L.
C6_GatesAreReachablePins ==
  pc = "calculateAreas" =>
    \A l \in Layers : \A i \in DOMAIN node_by_layer_map_[l] :
      l >= min_layer_ =>
        node_by_layer_map_[l][i].gates
          = ReachablePins(node_by_layer_map_[l][i].id, l)

\* an island has a pin that only the adjacencies of a higher layer join to
\* it, and has not got that pin as a gate
C6_Witness ==
  /\ pc = "calculateAreas"
  /\ \E l \in Layers : \E i \in DOMAIN node_by_layer_map_[l] :
       \E g \in ReachablePins(node_by_layer_map_[l][i].id, Len(tech)) :
         /\ g \notin ReachablePins(node_by_layer_map_[l][i].id, l)
         /\ g \notin node_by_layer_map_[l][i].gates
         /\ node_by_layer_map_[l][i].gates # {}

----------------------------------------------------------------------------
(* Properties of calculateAreas, calculatePAR and calculateCAR (Spec) *)

\* the islands of layer l that have the gate g
IslandsOf(g, l) ==
  {i \in DOMAIN node_by_layer_map_[l] : g \in node_by_layer_map_[l][i].gates}

FirstIslandOf(g, l) ==
  CHOOSE i \in IslandsOf(g, l) : \A j \in IslandsOf(g, l) : i <= j

RECURSIVE TotalArea(_, _, _)
TotalArea(l, is, side) ==
  IF is = {} THEN 0
  ELSE LET i == CHOOSE x \in is : TRUE
           n == node_by_layer_map_[l][i]
       IN  (IF side THEN n.perimeter * tech[l].thickness ELSE n.area)
             + TotalArea(l, is \ {i}, side)

RECURSIVE TotalPinArea(_, _)
TotalPinArea(names, diff) ==
  IF names = {} THEN 0
  ELSE LET n == CHOOSE x \in names : TRUE
           p == CHOOSE q \in Pins(nets[cur]) : q.name = n
       IN  (IF diff THEN p.diffArea ELSE p.gateArea)
             + TotalPinArea(names \ {n}, diff)

ValidPins == {p.name : p \in {q \in Pins(nets[cur]) : q.isInput /\ q.gateArea > 0}}

\* initAntennaRules has run
RulesLoaded == layer_info_ = [l \in Layers |-> AntennaModelOf(l)]

\* C7 as claimed, on a checker with its rules loaded: after calculateCAR,
\* CAR >= PAR in every record, with equality exactly on the lowest layer
\* that has a record of the gate.
C7_CarEqualsParOnLowestLayer ==
  (pc = "checkInfo" /\ RulesLoaded) =>
    \A g \in DOMAIN info_ : \A l \in DOMAIN info_[g] :
      /\ RGe(info_[g][l].CAR, info_[g][l].PAR)
      /\ (info_[g][l].CAR = info_[g][l].PAR)
           <=> (\A k \in DOMAIN info_[g] : k >= l)

\* the lower layers of the kind of l (routing or cut) with a record of g
LowerOfKind(g, l) ==
  {k \in DOMAIN info_[g] :
     k < l /\ ((getRoutingLevel(k) = 0) <=> (getRoutingLevel(l) = 0))}

\* C7 amended: after calculateCAR, CAR >= PAR in every record, with
\* equality exactly when every record of the gate on a lower layer of the
\* same kind (routing or cut) has PAR 0, as when there is none.
C7_CarEqualsParOnLowestOfKind ==
  pc = "checkInfo" =>
    \A g \in DOMAIN info_ : \A l \in DOMAIN info_[g] :
      /\ RGe(info_[g][l].CAR, info_[g][l].PAR)
      /\ (info_[g][l].CAR = info_[g][l].PAR)
           <=> (\A k \in LowerOfKind(g, l) : info_[g][k].PAR = RZero)

\* a gate with records on a metal layer, on the cut layer above it and on
\* the metal layer above that: CAR = PAR on the cut layer, CAR > PAR on
\* the upper metal layer
C7_Witness ==
  /\ pc = "checkInfo"
  /\ \E g \in DOMAIN info_ : \E l \in DOMAIN info_[g], k \in DOMAIN info_[g],
                              u \in DOMAIN info_[g] :
       /\ k < l /\ l < u
       /\ getRoutingLevel(l) = 0
       /\ RGt(info_[g][k].PAR, RZero)
       /\ RGt(info_[g][l].PAR, RZero)
       /\ info_[g][l].CAR = info_[g][l].PAR
       /\ RGt(info_[g][u].CAR, info_[g][u].PAR)

NonNegative(x) == RGe(x, RZero)

\* C8 as claimed: every ratio of every record is non-negative.
C8_AllRatiosNonNegative ==
  \A g \in DOMAIN info_ : \A l \in DOMAIN info_[g] :
    /\ NonNegative(info_[g][l].PAR) /\ NonNegative(info_[g][l].PSR)
    /\ NonNegative(info_[g][l].CAR) /\ NonNegative(info_[g][l].CSR)
    /\ NonNegative(info_[g][l].diff_PAR) /\ NonNegative(info_[g][l].diff_PSR)
    /\ NonNegative(info_[g][l].diff_CAR) /\ NonNegative(info_[g][l].diff_CSR)

\* nothing is subtracted in the diffusion ratios of the record r of layer l
NoMinusDiff(l, r) ==
  /\ LayerInfoAt(layer_info_, l).minus_diff_factor = 0
       \/ r.iterm_diff_area = 0
  /\ NonNegative(ReduceFactor(l, r))

\* C8 amended: PAR, PSR, CAR and CSR of every record are non-negative; the
\* diffusion variants of the records of a gate are non-negative when on
\* each of its layers the minus-diff factor in use or the diffusion area
\* is zero and the reduce factor is non-negative.
C8_PlainRatiosNonNegative ==
  \A g \in DOMAIN info_ :
    /\ \A l \in DOMAIN info_[g] :
         /\ NonNegative(info_[g][l].PAR) /\ NonNegative(info_[g][l].PSR)
         /\ NonNegative(info_[g][l].CAR) /\ NonNegative(info_[g][l].CSR)
    /\ (\A l \in DOMAIN info_[g] : NoMinusDiff(l, info_[g][l])) =>
         \A l \in DOMAIN info_[g] :
           /\ NonNegative(info_[g][l].diff_PAR)
           /\ NonNegative(info_[g][l].diff_PSR)
           /\ NonNegative(info_[g][l].diff_CAR)
           /\ NonNegative(info_[g][l].diff_CSR)

\* a diffusion-connected gate under a nonzero minus-diff factor: its plain
\* ratios are positive, its diff_PAR is negative
C8_Witness ==
  /\ pc = "checkInfo"
  /\ \E g \in DOMAIN info_ : \E l \in DOMAIN info_[g] :
       /\ LayerInfoAt(layer_info_, l).minus_diff_factor # 0
       /\ info_[g][l].iterm_diff_area > 0
       /\ RGt(info_[g][l].PAR, RZero) /\ RGt(info_[g][l].CAR, RZero)
       /\ RLt(info_[g][l].diff_PAR, RZero)

\* C9 as claimed: after calculateAreas the gate and diffusion areas of a
\* record are those of its gate alone.
C9_GateAreaOfGateAlone ==
  pc = "calculatePAR" =>
    \A g \in DOMAIN info_ : \A l \in DOMAIN info_[g] :
      /\ info_[g][l].iterm_gate_area = TotalPinArea({g}, FALSE)
      /\ info_[g][l].iterm_diff_area = TotalPinArea({g}, TRUE)

\* C9 amended: after calculateAreas the gate and diffusion areas of the
\* record of (g, L) are the sums over all the pins attached to the first
\* island of L that has g; further islands of L that have g add nothing.
C9_GateAreaOfFirstIsland ==
  pc = "calculatePAR" =>
    \A g \in DOMAIN info_ : \A l \in DOMAIN info_[g] :
      LET first == node_by_layer_map_[l][FirstIslandOf(g, l)]
      IN  /\ info_[g][l].iterm_gate_area = TotalPinArea(first.gates, FALSE)
          /\ info_[g][l].iterm_diff_area = TotalPinArea(first.gates, TRUE)

\* a record of a gate that shares its first island with another pin and
\* has a second island on the layer
C9_Witness ==
  /\ pc = "calculatePAR"
  /\ \E g \in DOMAIN info_ : \E l \in DOMAIN info_[g] :
       /\ Cardinality(IslandsOf(g, l)) >= 2
       /\ Cardinality(node_by_layer_map_[l][FirstIslandOf(g, l)].gates) >= 2
       /\ info_[g][l].iterm_gate_area > TotalPinArea({g}, FALSE)

\* C10: after calculateAreas the gates with records are inputs with
\* positive gate area, such a gate has a record on exactly the layers
\* where an island has it, and the record's area and side area are the
\* sums over those islands (no side area on a cut layer).
C10_OneMergedRecord ==
  pc = "calculatePAR" =>
    /\ DOMAIN info_ \subseteq ValidPins
    /\ \A g \in ValidPins : \A l \in Layers :
         IF IslandsOf(g, l) = {}
           THEN g \in DOMAIN info_ => l \notin DOMAIN info_[g]
           ELSE /\ g \in DOMAIN info_
                /\ l \in DOMAIN info_[g]
                /\ info_[g][l].area = TotalArea(l, IslandsOf(g, l), FALSE)
                /\ info_[g][l].side_area
                     = IF getRoutingLevel(l) = 0 THEN 0
                       ELSE TotalArea(l, IslandsOf(g, l), TRUE)

\* a record merged from two islands, on a net that has an attached pin
\* without a record
C10_Witness ==
  /\ pc = "calculatePAR"
  /\ \E g \in DOMAIN info_ : \E l \in DOMAIN info_[g] :
       Cardinality(IslandsOf(g, l)) >= 2
  /\ \E p \in Pins(nets[cur]) :
       /\ p.name \notin DOMAIN info_
       /\ \E l \in Layers : IslandsOf(p.name, l) # {}

----------------------------------------------------------------------------
(* Properties of the four single checks (SpecCheck) *)

CheckedRule == getDefaultAntennaRule(min_layer_)
Scaled(t, m) == RMul(t, Rat(100 - m, 100))
PwlAt(pwl) == getPwlFactor(pwl, rec.iterm_diff_area, RZero)

\* C2: a record that violates a check with a nonzero fixed threshold at
\* margin 0 violates that check at every larger margin too.
C2_FixedViolationPersists ==
  \A r \in DOMAIN verdict :
    (0 \in DOMAIN verdict /\ r > 0) =>
      /\ (CheckedRule.PAR # RZero /\ verdict[0].par[1]) => verdict[r].par[1]
      /\ (CheckedRule.PSR # RZero /\ verdict[0].psr[1]) => verdict[r].psr[1]
      /\ (CheckedRule.CAR # RZero /\ verdict[0].car) => verdict[r].car
      /\ (CheckedRule.CSR # RZero /\ verdict[0].csr) => verdict[r].csr

\* a fixed-threshold violation at margin 0 was checked again at a margin
C2_Witness ==
  \E r \in DOMAIN verdict :
    /\ 0 \in DOMAIN verdict /\ r > 0
    /\ CheckedRule.PAR # RZero /\ CheckedRule.CAR # RZero
    /\ verdict[0].par[1] /\ verdict[0].psr[1]
    /\ verdict[0].car /\ verdict[0].csr

Verdict(fixed, pwl, plain, diff) ==
  IF fixed # RZero THEN RGt(plain, fixed) /\ plain # fixed
  ELSE IF pwl # RZero THEN RGt(diff, pwl) /\ diff # pwl
  ELSE FALSE

\* C5: each check is a violation iff its fixed threshold is nonzero and
\* the plain ratio strictly greater, or the fixed threshold is zero, the
\* PWL threshold at the record's diffusion area nonzero and the diffusion
\* ratio strictly greater; the thresholds being those of the rule at
\* margin 0, and under a margin those the check compares with.
C5_VerdictStructure ==
  \A m \in DOMAIN verdict :
    /\ verdict[m].par[1]
         = Verdict(Scaled(CheckedRule.PAR, m),
                   Scaled(PwlAt(CheckedRule.diffPAR), m),
                   rec.PAR, rec.diff_PAR)
    /\ verdict[m].psr[1]
         = Verdict(Scaled(CheckedRule.PSR, m),
                   Scaled(PwlAt(CheckedRule.diffPSR), m),
                   rec.PSR, rec.diff_PSR)
    /\ verdict[m].car
         = Verdict(CheckedRule.CAR, PwlAt(CheckedRule.diffCAR),
                   rec.CAR, rec.diff_CAR)
    /\ verdict[m].csr
         = Verdict(CheckedRule.CSR, PwlAt(CheckedRule.diffCSR),
                   rec.CSR, rec.diff_CSR)

\* a diffusion ratio equal to its nonzero PWL threshold was checked and is
\* no violation
C5_Witness ==
  /\ 0 \in DOMAIN verdict
  /\ CheckedRule.PAR = RZero
  /\ PwlAt(CheckedRule.diffPAR) # RZero
  /\ rec.diff_PAR = PwlAt(CheckedRule.diffPAR)
  /\ verdict[0].par = <<FALSE, TRUE>>
  /\ ~verdict[0].car

----------------------------------------------------------------------------
(* Properties of calculateCAR and the "cumulative includes cuts" flag (Spec) *)

\* the sum of PAR (diff_PAR when diff) of the records of gate g on the
\* layers of ls
RECURSIVE SumPar(_, _, _)
SumPar(g, ls, diff) ==
  IF ls = {} THEN RZero
  ELSE LET l == CHOOSE x \in ls : TRUE
       IN  RAdd(IF diff THEN info_[g][l].diff_PAR ELSE info_[g][l].PAR,
                SumPar(g, ls \ {l}, diff))

\* the layers up to l with a record of g that are cut layers (cut = TRUE)
\* or routing layers
RecordsUpTo(g, l, cut) ==
  {k \in DOMAIN info_[g] : k <= l /\ ((getRoutingLevel(k) = 0) <=> cut)}

\* C11: after calculateCAR, on a checker with its rules loaded, the CAR and
\* diff_CAR of a record on a metal layer with an antenna rule are the sums of
\* the PAR / diff_PAR of the gate's metal records up to that layer, plus
\* those of the gate's via records below it exactly when the layer's rule
\* has the "cumulative includes cuts" flag.
C11_CarIncludesCutsWhenFlagged ==
  (pc = "checkInfo" /\ RulesLoaded) =>
    \A g \in DOMAIN info_ : \A l \in DOMAIN info_[g] :
      (getRoutingLevel(l) # 0 /\ hasDefaultAntennaRule(l)) =>
        LET flagged == getDefaultAntennaRule(l).hasAntennaCumRoutingPlusCut
            cuts(diff) == IF flagged
                            THEN SumPar(g, RecordsUpTo(g, l, TRUE), diff)
                            ELSE RZero
        IN  /\ info_[g][l].CAR
                 = RAdd(SumPar(g, RecordsUpTo(g, l, FALSE), FALSE), cuts(FALSE))
            /\ info_[g][l].diff_CAR
                 = RAdd(SumPar(g, RecordsUpTo(g, l, FALSE), TRUE), cuts(TRUE))

----------------------------------------------------------------------------
(* Properties of the diode loop of checkInfo (Spec) *)

\* the record r of layer l with k diodes on each of its gates: iterm_diff_area
\* raised by k * diffArea(diode) * |gates| and PAR/PSR recomputed
WithDiodes(li, l, r, diode, k) ==
  calculateWirePar(li, l,
    [r EXCEPT !.iterm_diff_area = @ + k * diode.diffArea * Cardinality(r.iterms)])

\* the PAR check and the PSR check both pass on the record with k diodes
PassesWith(li, l, r, diode, margin, k) ==
  LET w == WithDiodes(li, l, r, diode, k)
  IN  ~checkPAR(l, w, margin)[1] /\ ~checkPSR(l, w, margin)[1]

\* the violations a checkInfo step appends
NewViolations ==
  {antenna_violations_'[i] :
     i \in (Len(antenna_violations_) + 1) .. Len(antenna_violations_')}

\* the metal records of info_ a Violation v can stand for
RecordsOf(v) ==
  {gl \in (DOMAIN info_) \X Layers :
     /\ gl[2] \in DOMAIN info_[gl[1]]
     /\ getRoutingLevel(gl[2]) = v.routing_level
     /\ gl[1] \in v.gates
     /\ info_[gl[1]][gl[2]].iterms = v.gates}

\* C12: every Violation checkInfo appends with a count up to
\* max_diode_count_per_gate stands for a metal record that fails its PAR or
\* PSR check, and its count is the smallest k >= 1 such that the record with
\* k diodes on each gate passes both the PAR and the PSR check.
C12_DiodeCountIsMinimal ==
  [][pc = "checkInfo" =>
       \A v \in NewViolations :
         v.diode_count_per_gate <= max_diode_count_per_gate =>
           \E gl \in RecordsOf(v) :
             LET r == info_[gl[1]][gl[2]]
                 passes(k) == PassesWith(layer_info_, gl[2], r, diode_mterm',
                                         ratio_margin_', k)
             IN  /\ v.diode_count_per_gate >= 1
                 /\ ~passes(0)
                 /\ passes(v.diode_count_per_gate)
                 /\ \A j \in 1 .. (v.diode_count_per_gate - 1) : ~passes(j)]_vars

\* a check has reported a Violation that took more than one diode per gate
\* and fewer than the cap
C12_Witness ==
  /\ pc = "idle"
  /\ \E i \in DOMAIN antenna_violations_ :
       /\ antenna_violations_[i].diode_count_per_gate > 1
       /\ antenna_violations_[i].diode_count_per_gate <= max_diode_count_per_gate

\* the lines of kind kind among the lines a checkInfo step appends
NewLines(kind) ==
  {i \in (Len(log) + 1) .. Len(log') : log'[i].kind = kind}

\* the positions of the Violations a checkInfo step appends whose count
\* exceeds max_diode_count_per_gate
NewSaturated ==
  {i \in (Len(antenna_violations_) + 1) .. Len(antenna_violations_') :
     antenna_violations_'[i].diode_count_per_gate > max_diode_count_per_gate}

\* C13: the diode loops of a checkInfo step end; every Violation the step
\* appends has a metal routing level and a count from 1 to
\* max_diode_count_per_gate + 1 (the insertions its loop made), and the step
\* warns once for each Violation whose count exceeds max_diode_count_per_gate
\* and for nothing else.
C13_DiodeLoopBounded ==
  [][pc = "checkInfo" =>
       /\ pc' = "idle"
       /\ \A v \in NewViolations :
            /\ v.routing_level >= 1
            /\ v.diode_count_per_gate >= 1
            /\ v.diode_count_per_gate <= max_diode_count_per_gate + 1
       /\ Cardinality(NewLines("warn15")) = Cardinality(NewSaturated)]_vars

\* a check with a diode of zero diffusion area has run into the cap and
\* warned
C13_Witness ==
  /\ pc = "idle"
  /\ diode_mterm.present /\ diode_mterm.diffArea = 0
  /\ \E i \in DOMAIN antenna_violations_ :
       antenna_violations_[i].diode_count_per_gate
         = max_diode_count_per_gate + 1
  /\ \E i \in DOMAIN log : log[i].kind = "warn15"

\* the metal records of info_ that fail the PAR or the PSR check under
\* margin, as <<gate, layer>>
PartialViolators(margin) ==
  {gl \in (DOMAIN info_) \X Layers :
     /\ gl[2] \in DOMAIN info_[gl[1]]
     /\ getRoutingLevel(gl[2]) # 0
     /\ hasDefaultAntennaRule(gl[2])
     /\ \/ checkPAR(gl[2], info_[gl[1]][gl[2]], margin)[1]
        \/ checkPSR(gl[2], info_[gl[1]][gl[2]], margin)[1]}

\* C14: when checkInfo runs with a diode mterm, every metal record that
\* fails its PAR or PSR check is covered by a Violation the step appends:
\* one of the layer's routing level whose gates contain the record's gate.
C14_ViolatingGatesCovered ==
  [][(pc = "checkInfo" /\ diode_mterm'.present) =>
       \A gl \in PartialViolators(ratio_margin_') :
         \E v \in NewViolations :
           /\ v.routing_level = getRoutingLevel(gl[2])
           /\ gl[1] \in v.gates]_vars

----------------------------------------------------------------------------
(* Properties of the outcome of a check (Spec) *)

Reverse(q) == [i \in 1 .. Len(q) |-> q[Len(q) + 1 - i]]

\* two walks of info_: one that meets the layers bottom-up, and the one that
\* meets gates and layers the other way round
WalkUp ==
  [gates |-> CHOOSE q \in SeqPerms(DOMAIN info_) : TRUE,
   layers |-> [l \in Layers |-> l]]
WalkDown == [gates |-> Reverse(WalkUp.gates), layers |-> Reverse(WalkUp.layers)]

\* C15: the outcome of a checkInfo step (violation list, counts, lines
\* reported, all in their order) does not depend on the order in which the
\* step walks info_ and the records of a gate: it is the outcome of the
\* bottom-up walk and of the opposite walk alike.
C15_OutcomeIndependentOfOrder ==
  [][pc = "checkInfo" =>
       \A o \in {WalkUp, WalkDown} :
         LET k == checkInfo(layer_info_, info_, antenna_violations_, log,
                            diode_mterm', ratio_margin_', Quiet(cur), o)
         IN  /\ k.violations = antenna_violations_'
             /\ k.log = log'
             /\ pin_violation_count'
                  = pin_violation_count + k.pin_violation_count]_vars

\* the lines of a report that name a layer: the "Layer:" headers and the
\* lines of the checks
LayerLineKinds == {"Layer", "PAR", "PSR", "CAR", "CSR"}

\* lines i < j of the log belong to the report of one pin
SamePinBlock(i, j) == \A m \in (i + 1) .. j : log[m].kind # "Pin"

\* C16: within the report of one pin the "Layer:" blocks come bottom-to-top,
\* and so do the lines of the checks: a line of a higher layer never comes
\* before a line of a lower layer.
C16_LayerBlocksBottomUp ==
  \A i \in DOMAIN log : \A j \in DOMAIN log :
    (/\ i < j
     /\ log[i].kind \in LayerLineKinds
     /\ log[j].kind \in LayerLineKinds
     /\ SamePinBlock(i, j))
      => log[i].num <= log[j].num

----------------------------------------------------------------------------
(* Properties of checkAntennas (SpecAntennas) *)

\* the "Net:" headers of net n in a log
NetHeaders(lg, n) == {i \in DOMAIN lg : lg[i].kind = "Net" /\ lg[i].num = n}

\* C17: with report set (the net was selected, no diode mterm), the check
\* of a net that has a wire leaves exactly one "Net:" header of that net in
\* the report, whatever its records are.
C17_NetHeaderOnce ==
  [][(/\ pc = "checkNet"
      /\ run.todo # <<>>
      /\ run.report
      /\ getWire(Head(run.todo)))
       => Cardinality(NetHeaders(log', Head(run.todo))) = 1]_vars

\* the state of the analysis of a net
analysisVars == <<node_by_layer_map_, node_count_, dsu_parent_, dsu_size_,
                  info_>>

SpecialNets == {n \in DOMAIN nets : nets[n].special}

\* no special net is waiting for its check or under check, no line of the
\* log names one, and a run counts at most the other nets
NoSpecialNetInRun ==
  /\ \A i \in DOMAIN run.todo : run.todo[i] \notin SpecialNets
  /\ cur \notin SpecialNets
  /\ \A i \in DOMAIN log :
       log[i].kind \in {"Net", "via_error"} => log[i].num \notin SpecialNets
  /\ pc = "checkNet" =>
       net_violation_count <= Cardinality(DOMAIN nets \ SpecialNets)

\* getAntennaViolations2 on a special net returns the empty list at once;
\* checkAntennas on a selected special net, when routes exist, ends with
\* error 14 and calls no checkNet
SpecialNetSkipped ==
  \A n \in SpecialNets :
    /\ getAntennaViolations2(n) =>
         /\ antenna_violations_' = <<>>
         /\ pc' = "idle"
         /\ UNCHANGED analysisVars
    /\ \A verbose \in BOOLEAN, grt \in BOOLEAN :
         (checkAntennas(n, verbose, grt) /\ (grt \/ haveRoutedNets)) =>
           /\ log' = <<Line("error14", n, "", FALSE)>>
           /\ pc' = "idle"
           /\ UNCHANGED analysisVars
           /\ UNCHANGED <<antenna_violations_, net_violation_count_>>

AbortsWithoutRoutes ==
  \A sel \in 0 .. Len(nets), verbose \in BOOLEAN :
    (checkAntennas(sel, verbose, FALSE) /\ ~haveRoutedNets) =>
      /\ log' = <<Line("error8", 0, "", FALSE)>>
      /\ pc' = "idle"
      /\ run' = NoRun
      /\ UNCHANGED analysisVars
      /\ UNCHANGED <<antenna_violations_, net_violation_count_,
                     net_wires_made>>

\* C19: without global and without detailed routes checkAntennas aborts with
\* an error before any net is checked: no net is analysed, no counts or
\* metrics are reported and the stored net-violation count keeps its value.
C19_NoRoutesAborts == [][AbortsWithoutRoutes]_vars

\* a run has aborted for want of routes after an earlier run, on global
\* routes, had stored a count of one violating net
C19_Witness ==
  /\ pc = "idle"
  /\ ~grt_routes
  /\ ~haveRoutedNets
  /\ log = <<Line("error8", 0, "", FALSE)>>
  /\ net_violation_count_ = 1
  /\ info_ # EmptyMap

----------------------------------------------------------------------------
(* The state of the analysis between two checks (Spec) *)

\* C20: when no check is running, the layered island graph, the DSU arrays
\* and the record map hold nothing: the state of the net checked last was
\* released when its checkNet returned.
C20_PerNetStateReleased ==
  pc = "idle" =>
    /\ node_by_layer_map_ = NoNodes
    /\ dsu_parent_ = EmptyMap
    /\ dsu_size_ = EmptyMap
    /\ info_ = EmptyMap

----------------------------------------------------------------------------
(* The rule store during a check (Spec) *)

\* C21: checking a net never modifies the rule store: no step of a running
\* getAntennaViolations2 / checkNet changes layer_info_, whether or not the
\* layer has an entry and whether or not initAntennaRules has run.
C21_RuleStoreUnchangedByCheck ==
  [][pc # "idle" => layer_info_' = layer_info_]_vars

----------------------------------------------------------------------------
(* getPwlFactor on its own: a table, a reference value and a default are   *)
(* drawn, rec holds them and verdict the value returned.                   *)

MaxPwlPoints == 3
MaxPwlIndex == 3
MaxPwlRatio == 2
MaxRefValue == 5

PwlPoints == (0 .. MaxPwlIndex) \X {RInt(r) : r \in 0 .. MaxPwlRatio}

\* the tables of at most MaxPwlPoints points with strictly increasing index
PwlTables ==
  {t \in UNION {[1 .. n -> PwlPoints] : n \in 0 .. MaxPwlPoints} :
     \A k \in 1 .. Len(t) - 1 : t[k][1] < t[k + 1][1]}

InitPwl ==
  /\ rec \in [pwl_info : PwlTables, ref_value : 0 .. MaxRefValue,
              default_value : {RZero, ROne}]
  /\ tech = DefaultTech
  /\ nets = <<>>
  /\ layer_info_ = EmptyMap
  /\ node_by_layer_map_ = NoNodes
  /\ node_count_ = 0
  /\ dsu_parent_ = EmptyMap
  /\ dsu_size_ = EmptyMap
  /\ info_ = EmptyMap
  /\ antenna_violations_ = <<>>
  /\ ratio_margin_ = 0
  /\ net_violation_count = 0
  /\ pin_violation_count = 0
  /\ pc = "getPwlFactor"
  /\ cur = 0
  /\ verdict = <<>>
  /\ diode_mterm = NoDiode
  /\ log = <<>>
  /\ net_violation_count_ = 0
  /\ grt_routes = FALSE
  /\ net_wires_made = FALSE
  /\ run = NoRun

GetPwlFactor ==
  /\ pc = "getPwlFactor"
  /\ verdict' = <<getPwlFactor(rec.pwl_info, rec.ref_value, rec.default_value)>>
  /\ pc' = "returned"
  /\ UNCHANGED <<tech, nets, layer_info_, node_by_layer_map_, node_count_,
                 dsu_parent_, dsu_size_, info_, antenna_violations_,
                 ratio_margin_, net_violation_count, pin_violation_count, cur,
                 rec, diode_mterm, log>>
  /\ UNCHANGED runVars

NextPwl == GetPwlFactor

SpecPwl == InitPwl /\ [][NextPwl]_vars

\* equal rationals
REq(a, b) == a[1] * b[2] = b[1] * a[2]

\* the line through the points p and q of a table, at x
LineThrough(p, q, x) ==
  RAdd(p[2], RDiv(RMul(RInt(x - p[1]), RSub(q[2], p[2])), RInt(q[1] - p[1])))

\* C22: inside the index range of a table of two or more points the value
\* is the linear interpolation between the two consecutive points around
\* the reference value, at an index the ratio of that point; a table of one
\* point gives its ratio, an empty table the default.
C22_InterpolatesInsideRange ==
  pc = "returned" =>
    LET t == rec.pwl_info
        x == rec.ref_value
        n == Len(t)
    IN  /\ n = 0 => verdict[1] = rec.default_value
        /\ n = 1 => verdict[1] = t[1][2]
        /\ n >= 2 =>
             \A k \in 1 .. n - 1 :
               (t[k][1] <= x /\ x <= t[k + 1][1]) =>
                 /\ REq(verdict[1], LineThrough(t[k], t[k + 1], x))
                 /\ x = t[k][1] => verdict[1] = t[k][2]
                 /\ x = t[k + 1][1] => verdict[1] = t[k + 1][2]

\* a value strictly between two indices of a table of three points was
\* interpolated on the first segment, whose slope is not the last one
C22_Witness ==
  /\ pc = "returned"
  /\ Len(rec.pwl_info) = 3
  /\ rec.pwl_info[1][1] < rec.ref_value
  /\ rec.ref_value < rec.pwl_info[2][1]
  /\ rec.pwl_info[1][2] # rec.pwl_info[2][2]
  /\ ~REq(verdict[1],
          LineThrough(rec.pwl_info[2], rec.pwl_info[3], rec.ref_value))

\* C23: outside the index range of a table of two or more points, above the
\* last index or below the first, the value lies on the line through the
\* last two points: the linear extrapolation with the slope of the last
\* segment.
C23_ExtrapolatesWithLastSlope ==
  pc = "returned" =>
    LET t == rec.pwl_info
        x == rec.ref_value
        n == Len(t)
    IN  (n >= 2 /\ (x > t[n][1] \/ x < t[1][1])) =>
          REq(verdict[1], LineThrough(t[n - 1], t[n], x))

\* a value below the first index of a table of three points whose segments
\* differ in slope was extrapolated
C23_Witness ==
  /\ pc = "returned"
  /\ Len(rec.pwl_info) = 3
  /\ rec.ref_value < rec.pwl_info[1][1]
  /\ ~REq(verdict[1],
          LineThrough(rec.pwl_info[1], rec.pwl_info[2], rec.ref_value))

----------------------------------------------------------------------------
(* The islands a cumulative ratio counts (Spec) *)

\* the ids of the islands the pin g touches
TouchedIds(g) ==
  {PinNbrs(nets[cur], node_by_layer_map_, PinNamed(nets[cur], g))[k] :
     k \in DOMAIN PinNbrs(nets[cur], node_by_layer_map_,
                          PinNamed(nets[cur], g))}

\* the islands of layer l joined to the pin g by the adjacencies of the
\* layers up to K
JoinedIslands(g, l, K) ==
  {i \in DOMAIN node_by_layer_map_[l] :
     node_by_layer_map_[l][i].id \in Closure(TouchedIds(g), Edges(K))}

\* the area of the islands of the routing layers from l down that are joined
\* to g: joined once L is made (atTop), or once their own layer is made
RECURSIVE JoinedArea(_, _, _, _)
JoinedArea(g, l, L, atTop) ==
  IF l = 0 THEN 0
  ELSE (IF getRoutingLevel(l) # 0
          THEN TotalArea(l, JoinedIslands(g, l, IF atTop THEN L ELSE l), FALSE)
          ELSE 0)
         + JoinedArea(g, getLowerLayer(l), L, atTop)

\* g is the only pin of the net with gate area, and the area factor in use
\* is 1 on every layer
SoleGate(g) ==
  /\ \A p \in Pins(nets[cur]) : p.name # g => p.gateArea = 0
  /\ \A l \in Layers : LayerInfoAt(layer_info_, l).metal_factor = 1

\* C24 as claimed: the CAR of a gate on a metal layer L counts the area of
\* every island of the metal layers up to L that is joined to the gate once
\* L is made, also an island of a lower layer joined only through L.
C24_CarCountsAllJoinedAtL ==
  pc = "checkInfo" =>
    \A g \in DOMAIN info_ : \A L \in DOMAIN info_[g] :
      (getRoutingLevel(L) # 0 /\ SoleGate(g)) =>
        REq(info_[g][L].CAR,
            <<JoinedArea(g, L, L, TRUE), gateArea(PinNamed(nets[cur], g))>>)

\* C24 amended: the CAR of a gate on a metal layer L counts, for each metal
\* layer l up to L, the area of the islands of l joined to the gate by the
\* adjacencies of the layers up to l: an island of a lower layer that only L
\* joins to the gate is not counted.
C24_CarCountsJoinedAtOwnLayer ==
  pc = "checkInfo" =>
    \A g \in DOMAIN info_ : \A L \in DOMAIN info_[g] :
      (getRoutingLevel(L) # 0 /\ SoleGate(g)) =>
        REq(info_[g][L].CAR,
            <<JoinedArea(g, L, L, FALSE), gateArea(PinNamed(nets[cur], g))>>)

\* the CAR of a gate on the upper metal layer was computed on a net where an
\* island of the lower metal layer is joined to the gate through the upper
\* layer only
C24_Witness ==
  /\ pc = "checkInfo"
  /\ \E g \in DOMAIN info_ : \E L \in DOMAIN info_[g] :
       /\ getRoutingLevel(L) = 2
       /\ SoleGate(g)
       /\ JoinedIslands(g, min_layer_, L) # JoinedIslands(g, min_layer_, min_layer_)
       /\ info_[g][L].CAR # RZero

----------------------------------------------------------------------------
(* The violation counts (SpecAntennas) *)

\* the gates with a violating record on a layer with an antenna rule
ViolatingGates(info, margin) ==
  {g \in DOMAIN info :
     \E l \in DOMAIN info[g] :
       hasDefaultAntennaRule(l) /\ NodeHasViolation(l, info[g][l], margin)}

\* the nets an all-nets run has checked so far
CheckedNets ==
  {NetsToCheck(1)[k] : k \in DOMAIN NetsToCheck(1)}
    \ {run.todo[k] : k \in DOMAIN run.todo}

\* the number of violating gates of net n under the loaded rules
ViolatingPinsOf(n) ==
  IF getWire(n)
    THEN Cardinality(ViolatingGates(analyseNet(layer_info_, nets[n]).info, 0))
    ELSE 0

RECURSIVE SumOver(_, _)
SumOver(S, n) ==
  IF n = 0 THEN 0
  ELSE (IF n \in S THEN ViolatingPinsOf(n) ELSE 0) + SumOver(S, n - 1)

\* a checkInfo that has just ended counted the violating gates once each,
\* and checkNet counted the net once if it counted a gate
CountedOnce(margin, pins) ==
  /\ pin_violation_count' = pin_violation_count + pins
  /\ pins = Cardinality(ViolatingGates(info_', margin))
  /\ net_violation_count' =
       net_violation_count + (IF pins > 0 THEN 1 ELSE 0)

CountsStep ==
  /\ (pc = "checkInfo" /\ pc' = "idle") =>
       CountedOnce(ratio_margin_', pin_violation_count' - pin_violation_count)
  /\ (pc = "checkNet" /\ run.todo # <<>> /\ getWire(Head(run.todo))) =>
       CountedOnce(0, pin_violation_count' - pin_violation_count)

CountsOfRun ==
  /\ net_violation_count <= pin_violation_count
  /\ (pc = "checkNet" /\ ~run.report) =>
       /\ net_violation_count =
            Cardinality({n \in CheckedNets : ViolatingPinsOf(n) > 0})
       /\ pin_violation_count = SumOver(CheckedNets, Len(nets))

\* C25: the pin count of a checkInfo is the number of gates with a violating
\* record on a ruled layer; during an all-nets run the net count is the
\* number of checked nets with a violating pin and the pin count the sum of
\* their violating pins; the net count never exceeds the pin count.
C25_CountsGatesAndNetsOnce == []CountsOfRun /\ [][CountsStep]_vars

\* an all-nets run has checked a net with two violating gates and a net
\* whose gate passes: one violating net, two violating pins
C25_Witness ==
  /\ pc = "checkNet" /\ ~run.report /\ run.todo = <<>>
  /\ net_violation_count = 1
  /\ pin_violation_count = 2
  /\ \E n \in CheckedNets : getWire(n) /\ info_ # EmptyMap /\ ViolatingPinsOf(n) = 0

----------------------------------------------------------------------------
(* The adjacency of the via islands (Spec) *)

SeqRange(q) == {q[k] : k \in DOMAIN q}

\* the via island v of layer l is joined to every island that intersects it
\* below, or the data error of that side is in the log
LowerSideSettled(l, v) ==
  IF Cardinality(nets[cur].islands[l][v].lower) > 2
    THEN Line("via_error", cur, "lower", FALSE) \in SeqRange(log)
    ELSE SeqRange(node_by_layer_map_[l][v].low_adj)
           = nets[cur].islands[l][v].lower

\* ... and is the lower neighbour of every island that intersects it above,
\* or the data error of that side is in the log
UpperSideSettled(l, v) ==
  IF Cardinality(nets[cur].islands[l][v].upper) > 2
    THEN Line("via_error", cur, "upper", FALSE) \in SeqRange(log)
    ELSE \A u \in nets[cur].islands[l][v].upper :
           v \in SeqRange(node_by_layer_map_[getUpperLayer(l)][u].low_adj)

\* C26: once buildLayerMaps has run, every via island has every intersecting
\* island of the routing layer below as lower neighbour and is the lower
\* neighbour of every intersecting island of the routing layer above, unless
\* more than two islands intersect on that side and the data error is
\* logged; a via over exactly two lower islands is joined to both.
C26_ViaJoinedOrReported ==
  pc = "calculateAreas" =>
    \A l \in Layers :
      getRoutingLevel(l) = 0 =>
        \A v \in DOMAIN node_by_layer_map_[l] :
          LowerSideSettled(l, v) /\ UpperSideSettled(l, v)

----------------------------------------------------------------------------
(* The legacy wire-graph checks beside the polygon-set checks: one record  *)
(* of the lowest routing layer, given to checkGate's wire checks and to     *)
(* checkInfo's four checks at margin 0 (SpecLegacy).                        *)

\* checkWirePar: <<violated, checked>>
checkWirePar(l, ar) ==
  LET antenna_rule == getDefaultAntennaRule(l)
      PAR_ratio == antenna_rule.PAR
      diffPAR_PWL_ratio ==
        getPwlFactor(antenna_rule.diffPAR, ar.iterm_diff_area, RZero)
      PSR_ratio == antenna_rule.PSR
      diffPSR_PWL_ratio ==
        getPwlFactor(antenna_rule.diffPSR, ar.iterm_diff_area, RZero)
  IN  IF ~hasDefaultAntennaRule(l) THEN <<FALSE, FALSE>>
      ELSE <<\/ PAR_ratio # RZero /\ RGt(ar.PAR, PAR_ratio)
             \/ PAR_ratio = RZero /\ diffPAR_PWL_ratio # RZero
                  /\ RGt(ar.diff_PAR, diffPAR_PWL_ratio)
             \/ PSR_ratio # RZero /\ RGt(ar.PSR, PSR_ratio)
             \/ PSR_ratio = RZero /\ diffPSR_PWL_ratio # RZero
                  /\ RGt(ar.diff_PSR, diffPSR_PWL_ratio),
             \/ PAR_ratio = RZero /\ diffPAR_PWL_ratio # RZero
             \/ PSR_ratio = RZero /\ diffPSR_PWL_ratio # RZero>>

\* checkWireCar: <<violated, checked>>; with par_checked every threshold is 0
checkWireCar(l, ar, par_checked) ==
  LET antenna_rule == getDefaultAntennaRule(l)
      CAR_ratio == IF par_checked THEN RZero ELSE antenna_rule.CAR
      diffCAR_PWL_ratio ==
        IF par_checked THEN RZero
        ELSE getPwlFactor(antenna_rule.diffCAR, ar.iterm_diff_area, RZero)
      CSR_ratio == IF par_checked THEN RZero ELSE antenna_rule.CSR
      diffCSR_PWL_ratio ==
        IF par_checked THEN RZero
        ELSE getPwlFactor(antenna_rule.diffCSR, ar.iterm_diff_area, RZero)
  IN  IF ~hasDefaultAntennaRule(l) THEN <<FALSE, FALSE>>
      ELSE <<\/ CAR_ratio # RZero /\ RGt(ar.CAR, CAR_ratio)
             \/ CAR_ratio = RZero /\ diffCAR_PWL_ratio # RZero
                  /\ RGt(ar.CAR, diffCAR_PWL_ratio)
             \/ CSR_ratio # RZero /\ RGt(ar.CSR, CSR_ratio)
             \/ CSR_ratio = RZero /\ diffCSR_PWL_ratio # RZero
                  /\ RGt(ar.diff_CSR, diffCSR_PWL_ratio),
             \/ CAR_ratio = RZero /\ diffCAR_PWL_ratio # RZero
             \/ CSR_ratio = RZero /\ diffCSR_PWL_ratio # RZero>>

\* checkGate: wire_violation of one ARinfo
wire_violation(l, ar) ==
  checkWirePar(l, ar)[1] \/ checkWireCar(l, ar, checkWirePar(l, ar)[2])[1]

\* rules with a fixed or a PWL threshold, or none, on PAR and on CAR, and a
\* fixed PSR threshold or none
LegacyRules ==
  {[BaseRule EXCEPT !.PAR = RInt(t[1]), !.CAR = RInt(t[2]),
                    !.PSR = RInt(t[3]),
                    !.diffPAR = w[1], !.diffCAR = w[2]] :
     t \in {0, 2} \X {0, 2} \X {0, 3}, w \in {PwlNone, PwlRising} \X {PwlNone, PwlRising}}

LegacyRatios == {ROne, <<5, 2>>, RInt(4)}

\* records of gate area 1: ratios[1], ratios[2] are PAR and CAR,
\* ratios[3], ratios[4] their diffusion variants, the side ratios are s
LegacyRecords ==
  {[InfoType0 EXCEPT !.PAR = ratios[1], !.CAR = ratios[2],
                     !.diff_PAR = ratios[3], !.diff_CAR = ratios[4],
                     !.PSR = s, !.CSR = s, !.diff_PSR = s, !.diff_CSR = s,
                     !.iterm_gate_area = 1, !.iterm_diff_area = d] :
     ratios \in LegacyRatios \X LegacyRatios \X LegacyRatios \X LegacyRatios,
     s \in {RInt(2), RInt(4)}, d \in {0, 1}}

InitLegacy ==
  /\ tech \in {TechOf(r, {1, 2, 3}) : r \in LegacyRules}
  /\ rec \in LegacyRecords
  /\ nets = <<>>
  /\ layer_info_ = EmptyMap
  /\ node_by_layer_map_ = NoNodes
  /\ node_count_ = 0
  /\ dsu_parent_ = EmptyMap
  /\ dsu_size_ = EmptyMap
  /\ info_ = EmptyMap
  /\ antenna_violations_ = <<>>
  /\ ratio_margin_ = 0
  /\ net_violation_count = 0
  /\ pin_violation_count = 0
  /\ pc = "check"
  /\ cur = 0
  /\ verdict = EmptyMap
  /\ diode_mterm = NoDiode
  /\ log = <<>>
  /\ net_violation_count_ = 0
  /\ grt_routes = FALSE
  /\ net_wires_made = FALSE
  /\ run = NoRun

\* the verdict of checker `by` on rec
Judged(by, violated) ==
  /\ pc = "check"
  /\ by \notin DOMAIN verdict
  /\ verdict' = verdict @@ (by :> violated)
  /\ UNCHANGED <<tech, nets, layer_info_, node_by_layer_map_, node_count_,
                 dsu_parent_, dsu_size_, info_, antenna_violations_,
                 ratio_margin_, net_violation_count, pin_violation_count, pc,
                 cur, rec, diode_mterm, log>>
  /\ UNCHANGED runVars

\* the legacy checkGate on the ARinfo of a wire
CheckGate == Judged("checkGate", wire_violation(min_layer_, rec))

\* checkInfo's node_has_violation at ratio_margin 0
CheckNode == Judged("checkInfo", NodeHasViolation(min_layer_, rec, 0))

NextLegacy == CheckGate \/ CheckNode

SpecLegacy == InitLegacy /\ [][NextLegacy]_vars

\* C27: the legacy checks and the polygon-set checks of one record under
\* one rule at margin 0 give the same verdict, also when PAR or PSR was
\* decided by a PWL threshold.
C27_LegacyVerdictEqual ==
  ({"checkGate", "checkInfo"} \subseteq DOMAIN verdict) =>
    verdict["checkGate"] = verdict["checkInfo"]

----------------------------------------------------------------------------
(* The disjoint sets saveGates leaves (Spec) *)

TopLayer == Len(tech)

\* the id reached from u by k steps along dsu_parent_
RECURSIVE Up(_, _)
Up(u, k) == IF k = 0 THEN u ELSE Up(dsu_parent_[u], k - 1)

\* the root of u, if the parent array is a forest
RootOf(u) == Up(u, node_count_)

Ids == 0 .. (node_count_ - 1)

\* the unions saveGates was to make: one per recorded adjacency
UnitedPairs == Edges(TopLayer)

DsuIsForest ==
  /\ DOMAIN dsu_parent_ = Ids /\ DOMAIN dsu_size_ = Ids
  /\ \A u \in Ids : dsu_parent_[u] \in Ids
  /\ \A u \in Ids : dsu_parent_[RootOf(u)] = RootOf(u)

DsuIsClosure ==
  \A u \in Ids : \A v \in Ids :
    (RootOf(u) = RootOf(v)) <=> (v \in Closure({u}, UnitedPairs))

DsuSizes ==
  \A r \in Ids :
    dsu_parent_[r] = r =>
      dsu_size_[r] = Cardinality({u \in Ids : RootOf(u) = r})

\* C28: after saveGates the parent array is a forest, two ids have the same
\* root exactly when the united pairs join them, and the size stored at
\* every root is the number of ids of its set (which a union_set of two ids
\* of one set would break).
C28_DsuInvariants ==
  (cur # 0 /\ pc # "buildLayerMaps") =>
    DsuIsForest /\ DsuIsClosure /\ DsuSizes

\* saveGates has run on a net where more adjacencies are recorded than
\* unions were needed (one pair joined ids of one set) and a set has three
\* or more ids
C28_Witness ==
  /\ pc = "calculateAreas"
  /\ Cardinality(UnitedPairs)
       > node_count_ - Cardinality({r \in Ids : dsu_parent_[r] = r})
  /\ \E r \in Ids : dsu_parent_[r] = r /\ dsu_size_[r] >= 3

----------------------------------------------------------------------------
(* The result of a check as a function of its arguments (Spec) *)

\* the rule store as initAntennaRules fills it from the tech
FreshRules == [l \in Layers |-> AntennaModelOf(l)]

\* what a checker that read the rules of the tech answers for the net under
\* check, the walk orders left open
FreshAnswers(diode, margin) ==
  {checkInfo(FreshRules, analyseNet(FreshRules, nets[cur]).info, <<>>, <<>>,
             diode, margin, Quiet(cur), o) :
     o \in Orders(DOMAIN info_)}

\* the check that ends gives the violations and counts of a fresh checker
AnswersAsFresh ==
  (pc = "checkInfo" /\ pc' = "idle") =>
    \E k \in FreshAnswers(diode_mterm', ratio_margin_') :
      /\ antenna_violations_' = k.violations
      /\ pin_violation_count' = k.pin_violation_count
      /\ net_violation_count' = (IF k.pin_violation_count > 0 THEN 1 ELSE 0)

\* C29: the violation list and the counts of a check of a net are those of
\* a checker that has done nothing before but read the rules: they do not
\* depend on the nets checked earlier nor on whether initAntennaRules ran.
C29_ResultIndependentOfHistory == [][AnswersAsFresh]_vars

----------------------------------------------------------------------------
(* The temporary wires of a run on global routes (SpecAntennas) *)

\* C30: when no call is running, no wire made by makeNetWires is left: every
\* run that made them has destroyed them, whatever path it ended on.
C30_NetWiresDestroyed == pc = "idle" => ~net_wires_made

====
